---- MODULE Spec2Model ----
(***************************************************************************)
(* A model of the authentication core of rfd-api: the identity, API key    *)
(* and issued-token stores (rfd-model/src/storage/postgres.rs) and the     *)
(* operations of ApiContext over them (rfd-api/src/context.rs).            *)
(*                                                                         *)
(* Timestamps are whole seconds.  A nullable column is an Option: NULL or  *)
(* Some(value).  The created_at / updated_at columns are left out: no      *)
(* operation modelled here reads them, except the ORDER BY created_at of   *)
(* the list queries, which the stores keep as the order of their rows.     *)
(***************************************************************************)
EXTENDS Integers, Sequences, FiniteSets, TLC

\* ---------------------------------------------------------------- bounds

\* The clock runs over 0..MaxTime.
MaxTime == 1
\* At most MaxKeys rows of api_key and as many key ids.
MaxKeys == 1
MaxLinks == 2
\* JwtContext.default_expiration and JwtContext.max_expiration, in seconds.
DefaultExpiration == 1
MaxExpiration == 2

\* An Option is a sequence of length 0 (None) or 1 (Some).
None == <<>>
Some(x) == <<x>>
NULL == None

\* deleted_at of a soft-deleted row.  No query reads the time back, they test
\* the column for NULL only, so the model keeps one value for Some(Utc::now()).
Tombstoned == Some("now")

UserIds == {1, 2}
\* The requests that can be in flight inside get_caller at once.
Procs == {1, 2}
KeyIds == 1..MaxKeys
\* The ids (jti) of issued tokens.  Tokens do not interact, each has its own
\* row and its own claims: the specifications that are not about the rows of
\* the token store issue one.
TokenIds == {1, 2}
OneTokenId == {1}

\* ------------------------------------------------------------ permissions

\* ApiPermission variants, as <<tag, argument>> (0 when the variant has none).
GetRfdsAll == <<"GetRfdsAll", 0>>
GetRfd(n) == <<"GetRfd", n>>
GetApiUserAll == <<"GetApiUserAll", 0>>
GetApiUserSelf == <<"GetApiUserSelf", 0>>
GetApiUser(id) == <<"GetApiUser", id>>

\* The global variant of the action family of a resource-scoped variant.
GlobalOf(p) ==
    IF p[1] = "GetRfd" THEN GetRfdsAll
    ELSE IF p[1] = "GetApiUser" THEN GetApiUserAll
    ELSE p

IsScoped(p) == p[1] \in {"GetRfd", "GetApiUser"}

\* Permissions::can: p is held verbatim, or is a resource-scoped variant whose
\* action family's global variant is held.
Can(set, p) == p \in set \/ (IsScoped(p) /\ GlobalOf(p) \in set)

\* Permissions::intersect: per action family the most specific variant present
\* in both operands.
Intersect(a, b) == {p \in a : Can(b, p)} \cup {p \in b : Can(a, p)}

\* Permissions::expand: every identity-relative variant becomes the concrete
\* variant for the identity's own id.
Expand(set, user) ==
    {IF p = GetApiUserSelf THEN GetApiUser(user.id) ELSE p : p \in set}

\* Permission sets identities are provisioned with (identity 1 with either,
\* identity 2 with the first), and sets credentials ask for.
UserPermSets(id) ==
    IF id = 1 THEN {{GetRfdsAll, GetApiUserSelf}, {GetRfd(1)}}
    ELSE {{GetRfdsAll, GetApiUserSelf}}
RequestPermSets == {{GetRfdsAll, GetApiUserAll}, {GetRfd(1), GetApiUserSelf}}

\* PermissionsContext.default
DefaultPermissions == {GetRfdsAll, GetApiUserSelf}


\* ------------------------------------------------------------------ state

VARIABLES
    api_user,               \* table api_user: id -> row, for the ids that have a row
    api_key,                \* table api_key: rows in order of creation
    api_user_access_token,  \* table api_user_access_token: id -> row
    api_user_provider,      \* table api_user_provider: rows in order of creation
    login_attempt,          \* table login_attempt: id -> row
    rfd,                    \* table rfd: rows in order of creation
    signed,                 \* the Claims whose signed token was handed out
    now,                    \* Utc::now()
    pc,                     \* per request: where its get_caller stands
    local,                  \* per request: get_caller's (auth, api_user_id, permissions)
    held,                   \* per request: the LoginAttempt it has read, if any
    last                    \* the operation that ended last, its inputs and its result

vars == <<api_user, api_key, api_user_access_token, api_user_provider, login_attempt,
          rfd, signed, now, pc, local, held, last>>

stores == <<api_user, api_key, api_user_access_token, api_user_provider, login_attempt,
            rfd>>

\* ---------------------------------------------------------------- helpers

Reverse(s) == [i \in 1..Len(s) |-> s[Len(s) + 1 - i]]

\* OFFSET offset LIMIT limit of a result list.
Paginate(s, offset, limit) ==
    SubSeq(s, offset + 1, IF Len(s) < offset + limit THEN Len(s) ELSE offset + limit)

Min(S) == CHOOSE x \in S : \A y \in S : x <= y

\* The signature a Signer gives the presentable string "{id}.{secret}": a
\* deterministic value no other (id, secret) maps to.
Signature(id, secret) == <<"sig", id, secret>>

NoClaims == [aud |-> 0, prm |-> {}, exp |-> 0, nbf |-> 0, jti |-> 0]
NoLocal == [auth |-> [kind |-> "None", encrypted |-> <<>>, claims |-> NoClaims],
            api_user_id |-> 0, permissions |-> {}]

\* -------------------------------------------------------- ApiUserStore

\* ApiUserStore::list with an id filter, and ApiUserStore::get on top of it.
ApiUserStore_list(ids, deleted) ==
    {api_user[id] : id \in {i \in DOMAIN api_user \cap ids :
                                deleted \/ api_user[i].deleted_at = NULL}}

\* A get whose deleted filter is lost: it finds tombstoned rows too.
ApiUserStore_get_any(id, deleted) ==
    IF ApiUserStore_list({id}, TRUE) = {} THEN None
    ELSE Some(CHOOSE u \in ApiUserStore_list({id}, TRUE) : TRUE)

ApiUserStore_get(id, deleted) ==
    IF ApiUserStore_list({id}, deleted) = {} THEN None
    ELSE Some(CHOOSE u \in ApiUserStore_list({id}, deleted) : TRUE)

\* An upsert whose ON CONFLICT also sets deleted_at to NULL.
ApiUserStore_upsert_reviving(user) ==
    [i \in DOMAIN api_user \cup {user.id} |->
        IF i = user.id
        THEN [id |-> user.id, permissions |-> user.permissions, deleted_at |-> NULL]
        ELSE api_user[i]]

\* ApiUserStore::upsert: INSERT .. ON CONFLICT (id) DO UPDATE SET permissions.
ApiUserStore_upsert(user) ==
    IF user.id \in DOMAIN api_user
    THEN [api_user EXCEPT ![user.id].permissions = user.permissions]
    ELSE [i \in DOMAIN api_user \cup {user.id} |->
            IF i = user.id
            THEN [id |-> user.id, permissions |-> user.permissions, deleted_at |-> NULL]
            ELSE api_user[i]]

\* ApiUserStore::delete: UPDATE api_user SET deleted_at = now WHERE id = ..
ApiUserStore_delete(id) ==
    [i \in DOMAIN api_user |->
        IF i = id THEN [api_user[i] EXCEPT !.deleted_at = Tombstoned] ELSE api_user[i]]

\* --------------------------------------------------------- ApiKeyStore

\* A list without the expires_at and deleted_at conditions.
ApiKeyStore_list_unfiltered(filter, offset, limit) ==
    LET Match(k) ==
            /\ (filter.api_user_id = None \/ k.api_user_id \in filter.api_user_id[1])
            /\ (filter.key = None \/ k.key \in filter.key[1])
    IN  Paginate(Reverse(SelectSeq(api_key, Match)), offset, limit)

\* ApiKeyStore::list: the filters, then ORDER BY created_at DESC, OFFSET, LIMIT.
\* A filter on a column is an Option of the set of values accepted.
ApiKeyStore_list(filter, offset, limit) ==
    LET Match(k) ==
            /\ (filter.api_user_id = None \/ k.api_user_id \in filter.api_user_id[1])
            /\ (filter.key = None \/ k.key \in filter.key[1])
            /\ (filter.expired \/ k.expires_at > now)
            /\ (filter.deleted \/ k.deleted_at = NULL)
    IN  Paginate(Reverse(SelectSeq(api_key, Match)), offset, limit)

\* The requested permissions stored as they are.
ApiKeyPermissionsRequested(key, user) == key.permissions

\* The permissions ApiKeyStore::upsert stores: the requested ones the
\* identity's permissions allow.
ApiKeyPermissions(key, user) == {p \in key.permissions : Can(user.permissions, p)}

\* An upsert that, like those of the other stores, updates the row on a
\* conflicting id.
ApiKeyStore_upsert_overwriting(key, user) ==
    IF \E i \in DOMAIN api_key : api_key[i].id = key.id
    THEN [i \in DOMAIN api_key |->
            IF api_key[i].id = key.id
            THEN [id |-> key.id, api_user_id |-> key.api_user_id, key |-> key.key,
                  permissions |-> ApiKeyPermissions(key, user),
                  expires_at |-> key.expires_at, deleted_at |-> NULL]
            ELSE api_key[i]]
    ELSE Append(api_key,
                [id |-> key.id, api_user_id |-> key.api_user_id, key |-> key.key,
                 permissions |-> ApiKeyPermissions(key, user),
                 expires_at |-> key.expires_at, deleted_at |-> NULL])

\* ApiKeyStore::upsert: a plain INSERT of the key with the filtered
\* permissions.  It has no ON CONFLICT: on an id that is present the INSERT
\* fails and the table stays as it is.
ApiKeyStore_upsert(key, user) ==
    IF \E i \in DOMAIN api_key : api_key[i].id = key.id
    THEN api_key
    ELSE Append(api_key,
                [id |-> key.id, api_user_id |-> key.api_user_id, key |-> key.key,
                 permissions |-> ApiKeyPermissions(key, user),
                 expires_at |-> key.expires_at, deleted_at |-> NULL])

\* ApiKeyStore::delete: UPDATE api_key SET deleted_at = now WHERE id = ..
ApiKeyStore_delete(id) ==
    [i \in DOMAIN api_key |->
        IF api_key[i].id = id THEN [api_key[i] EXCEPT !.deleted_at = Tombstoned] ELSE api_key[i]]

\* ---------------------------------------------------- AccessTokenStore

\* AccessTokenStore::upsert: INSERT .. ON CONFLICT (id) DO UPDATE SET revoked_at.
AccessTokenStore_upsert(token) ==
    IF token.id \in DOMAIN api_user_access_token
    THEN [api_user_access_token EXCEPT ![token.id].revoked_at = token.revoked_at]
    ELSE [i \in DOMAIN api_user_access_token \cup {token.id} |->
            IF i = token.id
            THEN [id |-> token.id, api_user_id |-> token.api_user_id,
                  revoked_at |-> token.revoked_at]
            ELSE api_user_access_token[i]]

\* ------------------------------------------------ ApiUserProviderStore

\* ListPagination::latest(): the page register_api_user lists with. It is
\* wide enough to show that more than one link matches.
ListPagination_latest == [offset |-> 0, limit |-> MaxLinks]

\* ApiUserProviderStore::list with the provider and provider_id filters of
\* register_api_user: newest first, then OFFSET and LIMIT.
ApiUserProviderStore_list(provider, provider_id, deleted, pagination) ==
    LET Match(l) ==
            /\ l.provider = provider
            /\ l.provider_id = provider_id
            /\ (deleted \/ l.deleted_at = NULL)
    IN  Paginate(Reverse(SelectSeq(api_user_provider, Match)),
                 pagination.offset, pagination.limit)

\* ApiUserProviderStore::upsert: INSERT .. ON CONFLICT (id) DO UPDATE SET api_user_id.
ApiUserProviderStore_upsert(link) ==
    IF \E i \in DOMAIN api_user_provider : api_user_provider[i].id = link.id
    THEN [i \in DOMAIN api_user_provider |->
            IF api_user_provider[i].id = link.id
            THEN [api_user_provider[i] EXCEPT !.api_user_id = link.api_user_id]
            ELSE api_user_provider[i]]
    ELSE Append(api_user_provider,
                [id |-> link.id, api_user_id |-> link.api_user_id,
                 provider |-> link.provider, provider_id |-> link.provider_id,
                 deleted_at |-> NULL])

\* ------------------------------------------------------------ operations

Init ==
    /\ api_user = <<>>
    /\ api_key = <<>>
    /\ api_user_access_token = <<>>
    /\ api_user_provider = <<>>
    /\ login_attempt = <<>>
    /\ rfd = <<>>
    /\ signed = {}
    /\ now = 0
    /\ pc = [p \in Procs |-> "idle"]
    /\ local = [p \in Procs |-> NoLocal]
    /\ held = [p \in Procs |-> None]
    /\ last = [op |-> "init"]

\* Time passes.
Tick ==
    /\ now < MaxTime
    /\ now' = now + 1
    /\ last' = [op |-> "tick"]
    /\ UNCHANGED <<stores, signed, pc, local, held>>

\* A store call that fails in one of the operations below returns a StoreError
\* and writes nothing: the step leaves every variable as it is.

\* ApiContext::update_api_user: administrative provisioning of an identity.
UpdateApiUser ==
    \E id \in UserIds : \E permissions \in UserPermSets(id) :
        /\ api_user' = ApiUserStore_upsert([id |-> id, permissions |-> permissions])
        /\ last' = [op |-> "update_api_user"]
        /\ UNCHANGED <<api_key, api_user_access_token, api_user_provider, login_attempt,
                     signed, rfd, now, pc, local, held>>

\* ApiUserStore::delete: the identity is tombstoned.
DeleteApiUser ==
    \E id \in UserIds :
        /\ api_user' = ApiUserStore_delete(id)
        /\ last' = [op |-> "delete_api_user"]
        /\ UNCHANGED <<api_key, api_user_access_token, api_user_provider, login_attempt,
                     signed, rfd, now, pc, local, held>>

\* The expiry a key is asked for: soon, or beyond the model's horizon.
KeyExpiries == {1, MaxTime + 1}

\* The ids a new row can be given: an id some row already has, or the next
\* fresh one (a Uuid::new_v4() that no row has).
NewKeyIds == {k \in KeyIds : k <= Len(api_key) + 1}

\* ApiContext::create_api_user_token: a key generated for the identity
\* api_user (RawApiKey::generate: its secret is fresh, here the key's id),
\* signed and persisted.  The INSERT fails on an id that is already present.
CreateApiUserTokenWith(requests, expiries) ==
    \E id \in NewKeyIds, uid \in DOMAIN api_user, permissions \in requests,
       expires_at \in expiries :
        LET user == api_user[uid]
            key == [id |-> id, api_user_id |-> user.id, key |-> Signature(user.id, id),
                    permissions |-> permissions, expires_at |-> expires_at]
            ok == \A i \in DOMAIN api_key : api_key[i].id # id
        IN  /\ api_key' = ApiKeyStore_upsert(key, user)
            /\ last' = IF ok
                       THEN [op |-> "create_api_user_token", ok |-> TRUE, key |-> key,
                             api_user |-> user]
                       ELSE [op |-> "create_api_user_token", ok |-> FALSE]
            /\ UNCHANGED <<api_user, api_user_access_token, api_user_provider, login_attempt,
                     signed, rfd, now, pc, local, held>>

CreateApiUserToken == CreateApiUserTokenWith(RequestPermSets, KeyExpiries)

\* ApiContext::delete_api_user_token
DeleteApiUserToken ==
    \E id \in KeyIds :
        /\ api_key' = ApiKeyStore_delete(id)
        /\ last' = [op |-> "delete_api_user_token"]
        /\ UNCHANGED <<api_user, api_user_access_token, api_user_provider, login_attempt,
                     signed, rfd, now, pc, local, held>>

\* ---------------------------------------------------- register_api_user

\* The external identities a login can present, as (provider, provider_id).
ExternalIds == {<<"github", "a">>}

\* The ids of provider links.
ProviderIds == 1..MaxLinks

\* ensure_api_user: the table api_user after it, given what its get_api_user
\* found: a live identity is left alone, any other id is upserted with the
\* default permissions.
EnsureApiUser(api_user_id) ==
    IF ApiUserStore_get(api_user_id, FALSE) # None
    THEN api_user
    ELSE ApiUserStore_upsert([id |-> api_user_id, permissions |-> DefaultPermissions])

RegisterApiUserDone(external_id, result, user) ==
    last' = [op |-> "register_api_user", external_id |-> external_id, result |-> result,
             user |-> user]

NoUser == [id |-> 0, permissions |-> {}, deleted_at |-> NULL]

\* register_api_user taking the newest link whenever there is one.
FoundAny(links) == Len(links) >= 1

\* The arm `1 =>` of register_api_user.
FoundOne(links) == Len(links) = 1

\* ApiContext::register_api_user: the provider links of the external id are
\* listed; with none an identity and a link to it are created (the identity
\* stays when the store fails to write the link), with one the linked
\* identity is ensured, with more the call fails.
RegisterApiUserWith(external_id, links) ==
            /\ IF Len(links) = 0
               THEN /\ UserIds \ DOMAIN api_user # {}
                    /\ Len(api_user_provider) < Cardinality(ProviderIds)
                    /\ LET id == Min(UserIds \ DOMAIN api_user)
                       IN  /\ api_user' = EnsureApiUser(id)
                           /\ \E link_ok \in BOOLEAN :
                                IF link_ok
                                THEN /\ api_user_provider' =
                                            ApiUserProviderStore_upsert(
                                                [id |-> Len(api_user_provider) + 1,
                                                 api_user_id |-> id,
                                                 provider |-> external_id[1],
                                                 provider_id |-> external_id[2]])
                                     /\ RegisterApiUserDone(external_id, "Ok", api_user'[id])
                                ELSE /\ api_user_provider' = api_user_provider
                                     /\ RegisterApiUserDone(external_id, "Storage", NoUser)
               ELSE IF FoundOne(links)
               THEN /\ api_user' = EnsureApiUser(links[1].api_user_id)
                    /\ api_user_provider' = api_user_provider
                    /\ RegisterApiUserDone(external_id, "Ok", api_user'[links[1].api_user_id])
               ELSE /\ UNCHANGED <<api_user, api_user_provider>>
                    /\ RegisterApiUserDone(external_id, "InvariantFailed", NoUser)
            /\ UNCHANGED <<api_key, api_user_access_token, login_attempt, signed, rfd, now,
                           local>>

\* register_api_user as one step: the links are listed and acted on with no
\* other request in between.
RegisterApiUser ==
    /\ \E external_id \in ExternalIds :
        RegisterApiUserWith(external_id,
                            ApiUserProviderStore_list(external_id[1], external_id[2], FALSE,
                                                      ListPagination_latest))
    /\ UNCHANGED <<pc, held>>

\* register_api_user up to the return of list_api_user_provider: the request
\* holds the links it read.  Other requests run before it goes on.
RegisterApiUserList(p) ==
    /\ pc[p] = "idle"
    /\ \E external_id \in ExternalIds :
        /\ held' = [held EXCEPT ![p] =
                Some([external_id |-> external_id,
                      links |-> ApiUserProviderStore_list(external_id[1], external_id[2],
                                                          FALSE, ListPagination_latest)])]
        /\ last' = [op |-> "list_api_user_provider", proc |-> p, external_id |-> external_id]
    /\ pc' = [pc EXCEPT ![p] = "register"]
    /\ UNCHANGED <<stores, signed, now, local>>

\* register_api_user from the match on the links it read to its return.
RegisterApiUserMatch(p) ==
    /\ pc[p] = "register"
    /\ RegisterApiUserWith(held[p][1].external_id, held[p][1].links)
    /\ pc' = [pc EXCEPT ![p] = "idle"]
    /\ held' = [held EXCEPT ![p] = None]

\* --------------------------------------------------------- get_caller

ApiKeyAuth(encrypted) == [kind |-> "ApiKey", encrypted |-> encrypted, claims |-> NoClaims]
JwtAuth(claims) == [kind |-> "Jwt", encrypted |-> <<>>, claims |-> claims]

\* Claims of tokens signed outside register_access_token (ApiContext::sign
\* signs any Claims it is given).
OtherClaims ==
    {[aud |-> id, prm |-> prm, exp |-> 0, nbf |-> 0, jti |-> 0] :
        id \in UserIds, prm \in {{GetRfdsAll, GetApiUserSelf}}}

\* The credentials a request can present: the signature of a key string that
\* some stored key was signed to, a signature no key has, or the claims of a
\* verified token.
AuthTokens ==
    {ApiKeyAuth(api_key[i].key) : i \in DOMAIN api_key}
        \cup {ApiKeyAuth(Signature(0, 0))}
        \cup {JwtAuth(claims) : claims \in signed \cup OtherClaims}

Caller(id, permissions) == [kind |-> "Caller", id |-> id, permissions |-> permissions]
FailedToAuthenticate == [kind |-> "FailedToAuthenticate", id |-> 0, permissions |-> {}]
StorageError == [kind |-> "Storage", id |-> 0, permissions |-> {}]

\* The key lookup of get_caller: the newest key with the presented signature
\* that is neither expired nor deleted.
CallerKeyLookup(auth) ==
    ApiKeyStore_list([api_user_id |-> None, key |-> Some({auth.encrypted}),
                      expired |-> FALSE, deleted |-> FALSE], 0, 1)

\* The credential's (api_user_id, permissions), or None.
CallerCredential(auth) ==
    IF auth.kind = "ApiKey"
    THEN IF CallerKeyLookup(auth) # <<>>
         THEN Some(<<CallerKeyLookup(auth)[1].api_user_id, CallerKeyLookup(auth)[1].permissions>>)
         ELSE None
    ELSE Some(<<auth.claims.aud, auth.claims.prm>>)

\* The credential's permissions, expanded but not narrowed to the identity's.
CallerPermissionsOfCredential(user, permissions) == Expand(permissions, user)

\* The permissions of the resolved caller.
CallerPermissions(user, permissions) ==
    Expand(Intersect(user.permissions, permissions), user)

\* A fetch that answers a missing identity with an anonymous caller.
CallerResultAnonymous(api_user_id, permissions) ==
    IF ApiUserStore_get(api_user_id, FALSE) # None
    THEN Caller(api_user_id,
                CallerPermissions(ApiUserStore_get(api_user_id, FALSE)[1], permissions))
    ELSE Caller(0, {})

\* The identity fetch of get_caller and its result.
CallerResult(api_user_id, permissions) ==
    IF ApiUserStore_get(api_user_id, FALSE) # None
    THEN Caller(api_user_id,
                CallerPermissions(ApiUserStore_get(api_user_id, FALSE)[1], permissions))
    ELSE FailedToAuthenticate

GetCallerDone(p, auth, verified, api_user_id, permissions, result) ==
    /\ pc' = [pc EXCEPT ![p] = "idle"]
    /\ local' = [local EXCEPT ![p] = NoLocal]
    /\ last' = [op |-> "get_caller", proc |-> p, auth |-> auth, verified |-> verified,
                api_user_id |-> api_user_id, permissions |-> permissions,
                result |-> result]

\* get_caller with an API key, up to the identity fetch: the key lookup, the
\* first of the two store reads.  Other requests run between the two.
GetCallerApiKey(p) ==
    /\ pc[p] = "idle"
    /\ \E auth \in AuthTokens, ok \in BOOLEAN :
        /\ auth.kind = "ApiKey"
        /\ IF ~ok
           THEN GetCallerDone(p, auth, FALSE, 0, {}, StorageError)
           ELSE IF CallerCredential(auth) = None
           THEN GetCallerDone(p, auth, FALSE, 0, {}, FailedToAuthenticate)
           ELSE /\ pc' = [pc EXCEPT ![p] = "user"]
                /\ local' = [local EXCEPT ![p] =
                               [auth |-> auth, api_user_id |-> CallerCredential(auth)[1][1],
                                permissions |-> CallerCredential(auth)[1][2]]]
                /\ last' = [op |-> "get_caller_key", proc |-> p]
    /\ UNCHANGED <<stores, signed, now, held>>

\* A get_caller that consumes the key it authenticated with.
GetCallerUserConsuming(p) ==
    /\ pc[p] = "user"
    /\ \E ok \in BOOLEAN :
        GetCallerDone(p, local[p].auth, TRUE, local[p].api_user_id, local[p].permissions,
                      IF ok THEN CallerResult(local[p].api_user_id, local[p].permissions)
                      ELSE StorageError)
    /\ api_key' = [i \in DOMAIN api_key |->
                    IF api_key[i].key = local[p].auth.encrypted
                    THEN [api_key[i] EXCEPT !.deleted_at = Tombstoned]
                    ELSE api_key[i]]
    /\ UNCHANGED <<api_user, api_user_access_token, api_user_provider, login_attempt,
                   signed, rfd, now, held>>

\* get_caller with an API key, from the identity fetch on.
GetCallerUser(p) ==
    /\ pc[p] = "user"
    /\ \E ok \in BOOLEAN :
        GetCallerDone(p, local[p].auth, TRUE, local[p].api_user_id, local[p].permissions,
                      IF ok THEN CallerResult(local[p].api_user_id, local[p].permissions)
                      ELSE StorageError)
    /\ UNCHANGED <<stores, signed, now, held>>

\* get_caller with verified claims: the identity fetch is its one store read.
GetCallerJwt(p) ==
    /\ pc[p] = "idle"
    /\ \E auth \in AuthTokens, ok \in BOOLEAN :
        /\ auth.kind = "Jwt"
        /\ GetCallerDone(p, auth, TRUE, CallerCredential(auth)[1][1],
                         CallerCredential(auth)[1][2],
                         IF ok THEN CallerResult(CallerCredential(auth)[1][1],
                                                 CallerCredential(auth)[1][2])
                         ELSE StorageError)
    /\ UNCHANGED <<stores, signed, now, held>>

GetCaller(p) == GetCallerApiKey(p) \/ GetCallerUser(p) \/ GetCallerJwt(p)

\* ------------------------------------------------ register_access_token

\* The expiry asked of register_access_token: none, or any time up to one
\* second past the latest the configured maximum can allow.
RequestedExpiries == {None} \cup {Some(t) : t \in 0..(MaxTime + MaxExpiration + 1)}

\* expires_at.unwrap_or_else(|| Utc::now() + default_expiration)
TokenExpiresAt(expires_at) ==
    IF expires_at = None THEN now + DefaultExpiration ELSE expires_at[1]

\* A check that refuses the limit itself.
ExcessTokenExpirationAtLimit(expires_at) == expires_at >= now + MaxExpiration

\* No check of the expiry.
ExcessTokenExpirationNever(expires_at) == FALSE

\* The check of the expiry against the configured maximum.
ExcessTokenExpiration(expires_at) == expires_at > now + MaxExpiration

\* The requested permissions, not narrowed to the identity's.
TokenPermissionsRequested(user, requested_permissions) == requested_permissions

\* The permissions of an issued token.
TokenPermissions(user, requested_permissions) ==
    Intersect(requested_permissions, user.permissions)

\* Uuid::new_v4(): an id no issued token has.
NewTokenId(ids) == Min(ids \ DOMAIN api_user_access_token)

\* The Claims register_access_token builds.
TokenClaims(user, requested_permissions, expires_at, jti) ==
    [aud |-> user.id,
     prm |-> TokenPermissions(user, requested_permissions),
     exp |-> expires_at,
     nbf |-> now,
     jti |-> jti]

\* A record that is revoked from the start.
TokenRecordRevoked(user, claims) ==
    [id |-> claims.jti, api_user_id |-> user.id, revoked_at |-> Some(now)]

\* The NewAccessToken register_access_token persists for its claims.
TokenRecord(user, claims) ==
    [id |-> claims.jti, api_user_id |-> user.id, revoked_at |-> NULL]

NoToken == [id |-> 0, api_user_id |-> 0, revoked_at |-> NULL]

RegisterAccessTokenDone(user, requested, expires_at, result, claims, token) ==
    last' = [op |-> "register_access_token", api_user |-> user,
             requested_permissions |-> requested, expires_at |-> expires_at,
             at |-> now, result |-> result, claims |-> claims, access_token |-> token]

\* A register_access_token that persists the issued-token record before it
\* checks the expiry.
RegisterAccessTokenWithLateCheck(requests, expiries, ids) ==
    \E uid \in DOMAIN api_user, requested \in requests, expires_at \in expiries :
        LET user == api_user[uid]
            expires == TokenExpiresAt(expires_at)
            claims == TokenClaims(user, requested, expires, NewTokenId(ids))
            token == TokenRecord(user, claims)
        IN  /\ ids \ DOMAIN api_user_access_token # {}
            /\ api_user_access_token' = AccessTokenStore_upsert(token)
            /\ IF ExcessTokenExpiration(expires)
               THEN /\ signed' = signed
                    /\ RegisterAccessTokenDone(user, requested, expires_at,
                                               "ExcessTokenExpiration", NoClaims, NoToken)
               ELSE /\ signed' = signed \cup {claims}
                    /\ RegisterAccessTokenDone(user, requested, expires_at, "Ok", claims,
                                               api_user_access_token'[token.id])
            /\ UNCHANGED <<api_user, api_key, api_user_provider, login_attempt, rfd, now,
                           pc, local, held>>

\* A register_access_token that signs the claims before it persists the
\* issued-token record.
RegisterAccessTokenWithSigningFirst(requests, expiries, ids) ==
    \E uid \in DOMAIN api_user, requested \in requests, expires_at \in expiries,
       store_ok \in BOOLEAN :
        LET user == api_user[uid]
            expires == TokenExpiresAt(expires_at)
            claims == TokenClaims(user, requested, expires, NewTokenId(ids))
            token == TokenRecord(user, claims)
        IN  /\ ids \ DOMAIN api_user_access_token # {}
            /\ ~ExcessTokenExpiration(expires)
            /\ signed' = signed \cup {claims}
            /\ IF store_ok
               THEN /\ api_user_access_token' = AccessTokenStore_upsert(token)
                    /\ RegisterAccessTokenDone(user, requested, expires_at, "Ok", claims,
                                               api_user_access_token'[token.id])
               ELSE /\ api_user_access_token' = api_user_access_token
                    /\ RegisterAccessTokenDone(user, requested, expires_at, "Storage",
                                               NoClaims, NoToken)
            /\ UNCHANGED <<api_user, api_key, api_user_provider, login_attempt, rfd, now,
                           pc, local, held>>

\* ApiContext::register_access_token for a stored identity: the expiry check,
\* then the issued-token record (the store call can fail), then the signature
\* (the signer can fail).
RegisterAccessTokenWith(requests, expiries, ids) ==
    \E uid \in DOMAIN api_user, requested \in requests,
       expires_at \in expiries, store_ok \in BOOLEAN, sign_ok \in BOOLEAN :
        LET user == api_user[uid]
            expires == TokenExpiresAt(expires_at)
        IN  /\ ids \ DOMAIN api_user_access_token # {}
            /\ IF ExcessTokenExpiration(expires)
               THEN /\ RegisterAccessTokenDone(user, requested, expires_at,
                                               "ExcessTokenExpiration", NoClaims, NoToken)
                    /\ UNCHANGED <<api_user_access_token, signed>>
               ELSE LET claims == TokenClaims(user, requested, expires, NewTokenId(ids))
                        token == TokenRecord(user, claims)
                    IN  IF ~store_ok
                        THEN /\ RegisterAccessTokenDone(user, requested, expires_at,
                                                        "Storage", NoClaims, NoToken)
                             /\ UNCHANGED <<api_user_access_token, signed>>
                        ELSE /\ api_user_access_token' = AccessTokenStore_upsert(token)
                             /\ IF sign_ok
                                THEN /\ signed' = signed \cup {claims}
                                     /\ RegisterAccessTokenDone(user, requested,
                                            expires_at, "Ok", claims,
                                            api_user_access_token'[token.id])
                                ELSE /\ signed' = signed
                                     /\ RegisterAccessTokenDone(user, requested,
                                            expires_at, "Signer", NoClaims, NoToken)
            /\ UNCHANGED <<api_user, api_key, api_user_provider, login_attempt, rfd, now, pc, local, held>>

RegisterAccessToken ==
    RegisterAccessTokenWith(RequestPermSets, RequestedExpiries, OneTokenId)

\* AccessTokenStore::upsert of an issued token with revoked_at set: the token
\* is revoked.
RevokeAccessToken ==
    \E id \in DOMAIN api_user_access_token :
        /\ api_user_access_token' =
                AccessTokenStore_upsert([id |-> id,
                                         api_user_id |-> api_user_access_token[id].api_user_id,
                                         revoked_at |-> Some(now)])
        /\ last' = [op |-> "revoke_access_token"]
        /\ UNCHANGED <<api_user, api_key, api_user_provider, login_attempt, signed, rfd, now, pc,
                     local, held>>

Next ==
    \/ Tick
    \/ UpdateApiUser
    \/ DeleteApiUser
    \/ CreateApiUserToken
    \/ DeleteApiUserToken
    \/ GetCaller(1)

\* Caller resolution over identities and API keys: one request resolves its
\* caller while the stores are written.
Spec == Init /\ [][Next]_vars

NextToken ==
    \/ Tick
    \/ UpdateApiUser
    \/ DeleteApiUser
    \/ RegisterAccessToken
    \/ RevokeAccessToken
    \/ GetCallerJwt(1)

\* Token issuance over identities and issued tokens.
SpecToken == Init /\ [][NextToken]_vars

NextIdentity ==
    \/ UpdateApiUser
    \/ DeleteApiUser
    \/ RegisterApiUser
    \/ CreateApiUserTokenWith({{GetRfd(1), GetApiUserSelf}}, {MaxTime + 1})
    \/ RegisterAccessTokenWith({{GetRfd(1), GetApiUserSelf}}, {None}, OneTokenId)
    \/ GetCaller(1)

\* The life of an identity under every operation that writes a store, each
\* credential issued for one request.
SpecIdentity == Init /\ [][NextIdentity]_vars

\* ApiContext::update_api_user_provider with a new link: an external id is
\* linked to an identity, whatever links the external id has.
UpdateApiUserProvider ==
    /\ Len(api_user_provider) < Cardinality(ProviderIds)
    /\ \E external_id \in ExternalIds, id \in DOMAIN api_user :
        /\ api_user_provider' =
                ApiUserProviderStore_upsert([id |-> Len(api_user_provider) + 1,
                                             api_user_id |-> id,
                                             provider |-> external_id[1],
                                             provider_id |-> external_id[2]])
        /\ last' = [op |-> "update_api_user_provider", external_id |-> external_id,
                    api_user_id |-> id]
    /\ UNCHANGED <<api_user, api_key, api_user_access_token, login_attempt, signed, rfd, now,
                   pc, local, held>>

\* The Uuid of a provider link and the Uuid of an identity: the two tables
\* draw their ids independently, so no link id is an identity id.
LinkUuid(id) == <<"api_user_provider", id>>
UserUuid(id) == <<"api_user", id>>

\* ApiUserProviderStore::get: the list with the id filter and limit 1.
ApiUserProviderStore_get(uuid, deleted) ==
    LET found == SelectSeq(api_user_provider,
                           LAMBDA l : /\ LinkUuid(l.id) = uuid
                                      /\ (deleted \/ l.deleted_at = NULL))
    IN  IF found = <<>> THEN None ELSE Some(found[1])

\* The api_user table after ApiUserProviderStore::delete: UPDATE api_user SET
\* deleted_at = now WHERE api_user.id = id.
ApiUserProviderStore_delete(uuid) ==
    [i \in DOMAIN api_user |->
        IF UserUuid(i) = uuid
        THEN [api_user[i] EXCEPT !.deleted_at = Tombstoned]
        ELSE api_user[i]]

\* ApiUserProviderStore::delete of any Uuid of the store: the update, then
\* get(id, true) as the result.
DeleteApiUserProvider ==
    /\ \E uuid \in {LinkUuid(api_user_provider[i].id) : i \in DOMAIN api_user_provider}
                        \cup {UserUuid(i) : i \in DOMAIN api_user} :
        /\ api_user' = ApiUserProviderStore_delete(uuid)
        /\ last' = [op |-> "delete_api_user_provider", id |-> uuid,
                    api_user |-> api_user,
                    result |-> ApiUserProviderStore_get(uuid, TRUE)]
    /\ UNCHANGED <<api_key, api_user_access_token, api_user_provider, login_attempt,
                   signed, rfd, now, pc, local, held>>

NextRegister ==
    \/ UpdateApiUser
    \/ DeleteApiUser
    \/ RegisterApiUser
    \/ UpdateApiUserProvider
    \/ DeleteApiUserProvider

\* Identities and their provider links.
SpecRegister == Init /\ [][NextRegister]_vars

NextRegisterConcurrent ==
    \/ UpdateApiUser
    \/ DeleteApiUser
    \/ \E p \in Procs : RegisterApiUserList(p)
    \/ \E p \in Procs : RegisterApiUserMatch(p)

\* Concurrent register_api_user requests.
SpecRegisterConcurrent == Init /\ [][NextRegisterConcurrent]_vars

\* AccessTokenStore::get: the row of the id; unless revoked is set, only if
\* revoked_at IS NULL.
AccessTokenStore_get(id, revoked) ==
    IF /\ id \in DOMAIN api_user_access_token
       /\ (revoked \/ api_user_access_token[id].revoked_at = NULL)
    THEN Some(api_user_access_token[id])
    ELSE None

\* AccessTokenStore::list with the id and api_user_id filters; unless revoked
\* is set, only rows with revoked_at > now, which no row with a NULL
\* revoked_at satisfies; newest first, then OFFSET and LIMIT.
AccessTokenStore_list(ids, api_user_ids, revoked, offset, limit) ==
    LET Match(row) ==
            /\ (ids = None \/ row.id \in ids[1])
            /\ (api_user_ids = None \/ row.api_user_id \in api_user_ids[1])
            /\ (revoked \/ (row.revoked_at # NULL /\ row.revoked_at[1] > now))
        rows == [i \in 1..Len(api_user_access_token) |-> api_user_access_token[i]]
    IN  Paginate(Reverse(SelectSeq(rows, Match)), offset, limit)

\* A reader asks AccessTokenStore::list and AccessTokenStore::get for one id
\* with the same value of revoked.
ListAccessTokens ==
    /\ \E id \in TokenIds, revoked \in BOOLEAN :
        last' = [op |-> "list_access_token", id |-> id, revoked |-> revoked,
                 listed |-> AccessTokenStore_list(Some({id}), None, revoked, 0,
                                                  Cardinality(TokenIds)),
                 got |-> AccessTokenStore_get(id, revoked)]
    /\ UNCHANGED <<stores, signed, now, pc, local, held>>

NextTokenRecords ==
    \/ Tick
    \/ UpdateApiUser
    \/ DeleteApiUser
    \/ RegisterAccessTokenWith({{GetRfd(1), GetApiUserSelf}}, {None}, TokenIds)
    \/ RevokeAccessToken
    \/ ListAccessTokens

\* The rows of the issued-token store: tokens issued one after another, each
\* for one request, and revoked.
SpecTokenRecords == Init /\ [][NextTokenRecords]_vars

\* Concurrent requests resolving their callers, with the stores written and
\* the clock moved only while no request is inside get_caller.
AllIdle == \A p \in Procs : pc[p] = "idle"

NextReaders ==
    \/ AllIdle /\ Tick
    \/ AllIdle /\ UpdateApiUser
    \/ AllIdle /\ DeleteApiUser
    \/ AllIdle /\ CreateApiUserTokenWith({{GetRfd(1), GetApiUserSelf}}, {MaxTime + 1})
    \/ AllIdle /\ DeleteApiUserToken
    \/ \E p \in Procs : GetCallerApiKey(p)
    \/ \E p \in Procs : GetCallerUser(p)
    \/ \E p \in Procs : GetCallerJwt(p)

SpecReaders == Init /\ [][NextReaders]_vars

\* ------------------------------------------------------------ RawApiKey

\* A string is the sequence of its characters.  The characters of presented
\* strings: the separator, a hex digit, and one that is no hex digit.
HexDigits == <<"0", "1", "2", "3", "4", "5", "6", "7", "8", "9", "a", "b", "c", "d", "e", "f">>
UpperHexDigits == <<"0", "1", "2", "3", "4", "5", "6", "7", "8", "9", "A", "B", "C", "D", "E", "F">>
PresentedChars == {".", "0", "x"}

\* Presented strings have at most MaxLen characters.
MaxLen == 5
\* A Uuid has UuidBytes bytes (16 in the program), written as twice as many
\* hex digits; RawApiKey::generate::<N> draws KeyBytes bytes.
UuidBytes == 1
KeyBytes == 1

Strings(chars, n) == UNION {[1..k -> chars] : k \in 0..n}
PresentedStrings == Strings(PresentedChars, MaxLen)

\* The bytes OsRng.fill_bytes can give.
RandomBytes == [1..KeyBytes -> {0, 171}]

\* hex::encode: two lowercase hex digits for each byte.
HexEncode(bytes) ==
    [i \in 1..(2 * Len(bytes)) |->
        IF i % 2 = 1 THEN HexDigits[(bytes[(i + 1) \div 2] \div 16) + 1]
        ELSE HexDigits[(bytes[i \div 2] % 16) + 1]]

IsHexDigit(c) == \E d \in 1..16 : HexDigits[d] = c \/ UpperHexDigits[d] = c
HexValue(c) == (CHOOSE d \in 1..16 : HexDigits[d] = c \/ UpperHexDigits[d] = c) - 1

\* The value of a string of hex digits, most significant first.
RECURSIVE HexNumber(_)
HexNumber(text) ==
    IF text = <<>> THEN 0
    ELSE 16 * HexNumber(SubSeq(text, 1, Len(text) - 1)) + HexValue(text[Len(text)])

\* The bytes of a Uuid, most significant first, and its Display: lowercase
\* hex.  (The hyphens of the program's Display are left out, with the other
\* forms Uuid::from_str accepts; none of them holds a '.'.)
RECURSIVE Pow256(_)
Pow256(n) == IF n = 0 THEN 1 ELSE 256 * Pow256(n - 1)
UuidBytesOf(id) == [i \in 1..UuidBytes |-> (id \div Pow256(UuidBytes - i)) % 256]
FormatUuid(id) == HexEncode(UuidBytesOf(id))

\* str::parse::<Uuid>: the hex digits of a Uuid, in either case.
ParseUuid(text) ==
    IF Len(text) = 2 * UuidBytes /\ \A i \in DOMAIN text : IsHexDigit(text[i])
    THEN Some(HexNumber(text))
    ELSE None

Ok(value) == <<"Ok", value>>
Err(error) == <<"Err", error>>

\* A split at the last '.' instead of the first.
SplitOnceLast(value) ==
    IF \E i \in DOMAIN value : value[i] = "."
    THEN LET at == CHOOSE i \in DOMAIN value :
                        value[i] = "." /\ \A j \in DOMAIN value : value[j] = "." => j <= i
         IN  Some(<<SubSeq(value, 1, at - 1), SubSeq(value, at + 1, Len(value))>>)
    ELSE None

\* str::split_once("."): the text before and after the first '.', or None.
SplitOnce(value) ==
    IF \E i \in DOMAIN value : value[i] = "."
    THEN LET at == Min({i \in DOMAIN value : value[i] = "."})
         IN  Some(<<SubSeq(value, 1, at - 1), SubSeq(value, at + 1, Len(value))>>)
    ELSE None

\* RawApiKey::generate
RawApiKey_generate(id, token_raw) == [id |-> id, clear |-> HexEncode(token_raw)]

\* A parse that gives a prefix that is no Uuid the nil Uuid.
RawApiKey_try_from_lenient(value) ==
    IF SplitOnce(value) = None THEN Err("FailedToParse")
    ELSE IF ParseUuid(SplitOnce(value)[1][1]) = None
    THEN Ok([id |-> 0, clear |-> SplitOnce(value)[1][2]])
    ELSE Ok([id |-> ParseUuid(SplitOnce(value)[1][1])[1], clear |-> SplitOnce(value)[1][2]])

\* impl TryFrom<&str> for RawApiKey
RawApiKey_try_from(value) ==
    IF SplitOnce(value) = None THEN Err("FailedToParse")
    ELSE IF ParseUuid(SplitOnce(value)[1][1]) = None THEN Err("FailedToParse")
    ELSE Ok([id |-> ParseUuid(SplitOnce(value)[1][1])[1], clear |-> SplitOnce(value)[1][2]])

\* The code point of a character.
Ascii(c) ==
    IF c = "." THEN 46
    ELSE IF c = "x" THEN 120
    ELSE IF \E d \in 1..10 : HexDigits[d] = c THEN 48 + HexValue(c)
    ELSE IF \E d \in 11..16 : HexDigits[d] = c THEN 87 + HexValue(c)
    ELSE 55 + HexValue(c)

\* The Signers: signer 0 fails, the others sign.
Signers == {0, 1, 2}

\* Signer::sign: the signature bytes of a message, a deterministic function
\* of the signer's key material and the message that no two messages share.
SignerSign(signer, message) ==
    IF signer = 0 THEN Err("Signing")
    ELSE Ok(<<signer>> \o [i \in DOMAIN message |-> Ascii(message[i])])

\* A key string without the separator.
FormatKeyJoined(raw) == FormatUuid(raw.id) \o raw.clear

\* format!("{}.{}", self.id, self.clear)
FormatKey(raw) == FormatUuid(raw.id) \o <<".">> \o raw.clear

\* A signing that salts the message when the operation before was a signing.
RawApiKey_sign_salted(raw, signer) ==
    IF SignerSign(signer, FormatKey(raw))[1] = "Err" THEN Err("Signing")
    ELSE Ok([key |-> FormatKey(raw),
             signature |->
                HexEncode(SignerSign(signer,
                                     IF last.op = "sign" THEN FormatKey(raw) \o <<"0">>
                                     ELSE FormatKey(raw))[2])])

\* A signing over the identity id alone.
RawApiKey_sign_id(raw, signer) ==
    IF SignerSign(signer, FormatKey(raw))[1] = "Err" THEN Err("Signing")
    ELSE Ok([key |-> FormatKey(raw),
             signature |-> HexEncode(SignerSign(signer, FormatUuid(raw.id))[2])])

\* A signing whose signature is left as the Signer gave it, not hex-encoded.
RawApiKey_sign_bytes(raw, signer) ==
    IF SignerSign(signer, FormatKey(raw))[1] = "Err" THEN Err("Signing")
    ELSE Ok([key |-> FormatKey(raw), signature |-> SignerSign(signer, FormatKey(raw))[2]])

\* RawApiKey::sign
RawApiKey_sign(raw, signer) ==
    IF SignerSign(signer, FormatKey(raw))[1] = "Err" THEN Err("Signing")
    ELSE Ok([key |-> FormatKey(raw),
             signature |-> HexEncode(SignerSign(signer, FormatKey(raw))[2])])

\* The signing before this one, if the last operation was a signing.
PrevSign ==
    IF last.op = "sign"
    THEN Some([raw |-> last.raw, signer |-> last.signer, result |-> last.result])
    ELSE None

\* A presented string is parsed.
ParseKey ==
    /\ \E value \in PresentedStrings :
        last' = [op |-> "parse", value |-> value, result |-> RawApiKey_try_from(value)]
    /\ UNCHANGED <<stores, signed, now, pc, local, held>>

\* A key is generated for an identity and signed.
GenerateKey ==
    /\ \E id \in UserIds, token_raw \in RandomBytes, signer \in Signers :
        last' = [op |-> "sign", generated |-> Some(token_raw),
                 raw |-> RawApiKey_generate(id, token_raw), signer |-> signer,
                 result |-> RawApiKey_sign(RawApiKey_generate(id, token_raw), signer),
                 prev |-> PrevSign]
    /\ UNCHANGED <<stores, signed, now, pc, local, held>>

\* The key that was parsed last is signed, as authentication does with a
\* presented key.
SignParsedKey ==
    /\ last.op = "parse"
    /\ last.result[1] = "Ok"
    /\ \E signer \in Signers :
        last' = [op |-> "sign", generated |-> None, raw |-> last.result[2],
                 signer |-> signer, result |-> RawApiKey_sign(last.result[2], signer),
                 prev |-> None]
    /\ UNCHANGED <<stores, signed, now, pc, local, held>>

NextKey == ParseKey \/ GenerateKey \/ SignParsedKey

\* Parsing and signing of API keys.
SpecKey == Init /\ [][NextKey]_vars

\* -------------------------------------------------------- login attempts

\* The ids of login attempts, given in order of creation.
AttemptIds == {1, 2}
\* Authorization codes a provider calls back with, and values
\* CsrfToken::new_random() can give.
ProviderCodes == {"prov-987", "prov-1"}
LocalCodes == {"L1", "L2", "L3"}
\* The codes a client can present to the lookup.
PresentedCodes == LocalCodes \cup {"prov-987"}

\* The NewLoginAttempt of a new attempt: state Created and no codes yet.
NewAttempt(id) ==
    [id |-> id, attempt_state |-> "Created", client_id |-> "c1",
     redirect_uri |-> "https://x/cb", state |-> "st", pkce_challenge |-> "abc",
     pkce_challenge_method |-> "S256", authz_code |-> None,
     expires_at |-> Some(MaxTime + 1), provider |-> "github", provider_state |-> "pst",
     provider_pkce_verifier |-> "pv", provider_authz_code |-> None]

\* An upsert whose DO UPDATE sets every column of the row.
LoginAttemptStore_upsert_every_column(attempt) ==
    [i \in DOMAIN login_attempt \cup {attempt.id} |->
        IF i = attempt.id THEN attempt ELSE login_attempt[i]]

\* LoginAttemptStore::upsert: INSERT .. ON CONFLICT (id) DO UPDATE SET
\* attempt_state, authz_code, expires_at, provider_authz_code.
LoginAttemptStore_upsert(attempt) ==
    IF attempt.id \in DOMAIN login_attempt
    THEN [login_attempt EXCEPT ![attempt.id] =
            [@ EXCEPT !.attempt_state = attempt.attempt_state,
                      !.authz_code = attempt.authz_code,
                      !.expires_at = attempt.expires_at,
                      !.provider_authz_code = attempt.provider_authz_code]]
    ELSE [i \in DOMAIN login_attempt \cup {attempt.id} |->
            IF i = attempt.id THEN attempt ELSE login_attempt[i]]

\* LoginAttemptStore::get
LoginAttemptStore_get(id) ==
    IF id \in DOMAIN login_attempt THEN Some(login_attempt[id]) ELSE None

\* A list that leaves the authz_code filter out of the query.
LoginAttemptStore_list_any_code(attempt_states, authz_codes, offset, limit) ==
    LET Match(id) ==
            attempt_states = None \/ login_attempt[id].attempt_state \in attempt_states[1]
        rows == [i \in 1..Len(login_attempt) |-> login_attempt[i]]
    IN  Paginate(Reverse(SelectSeq(rows, LAMBDA r : Match(r.id))), offset, limit)

\* LoginAttemptStore::list with the attempt_state and authz_code filters:
\* newest first, then OFFSET and LIMIT.
LoginAttemptStore_list(attempt_states, authz_codes, offset, limit) ==
    LET Match(id) ==
            /\ (attempt_states = None
                    \/ login_attempt[id].attempt_state \in attempt_states[1])
            /\ (authz_codes = None
                    \/ (login_attempt[id].authz_code # None
                            /\ login_attempt[id].authz_code[1] \in authz_codes[1]))
        rows == [i \in 1..Len(login_attempt) |-> login_attempt[i]]
    IN  Paginate(Reverse(SelectSeq(rows, LAMBDA r : Match(r.id))), offset, limit)

\* A set_login_provider_authz_code that hands the provider's code on as the
\* local code.
RemoteAuthenticatedAttemptForwarding(attempt, code, random) ==
    [attempt EXCEPT !.provider_authz_code = Some(code),
                    !.attempt_state = "RemoteAuthenticated",
                    !.authz_code = Some(code)]

\* A set_login_provider_authz_code that draws no local code.
RemoteAuthenticatedAttemptWithoutLocalCode(attempt, code, random) ==
    [attempt EXCEPT !.provider_authz_code = Some(code),
                    !.attempt_state = "RemoteAuthenticated"]

\* A set_login_provider_authz_code that leaves the state of the attempt as
\* it was.
RemoteAuthenticatedAttemptKeepingState(attempt, code, random) ==
    [attempt EXCEPT !.provider_authz_code = Some(code),
                    !.authz_code = Some(random)]

\* The NewLoginAttempt set_login_provider_authz_code upserts: the attempt it
\* was given with the provider's code, the state RemoteAuthenticated and a
\* new random local code.
RemoteAuthenticatedAttempt(attempt, code, random) ==
    [attempt EXCEPT !.provider_authz_code = Some(code),
                    !.attempt_state = "RemoteAuthenticated",
                    !.authz_code = Some(random)]

\* The NewLoginAttempt fail_login_attempt upserts.
FailedAttempt(attempt) == [attempt EXCEPT !.attempt_state = "Failed"]

\* A lookup by code alone, whatever the state of the attempt.
LoginAttemptForCodeAnyState(code) ==
    LoginAttemptStore_list(None, Some({code}), 0, 1)

\* The result of get_login_attempt_for_code: attempts.pop() of the list with
\* attempt_state = [RemoteAuthenticated], authz_code = [code], limit 1.
LoginAttemptForCode(code) ==
    LoginAttemptStore_list(Some({"RemoteAuthenticated"}), Some({code}), 0, 1)

\* The values a new random code can take: CsrfToken::new_random() repeats no
\* code that is stored.
NewRandomCodes ==
    {c \in LocalCodes :
        \A id \in DOMAIN login_attempt : login_attempt[id].authz_code # Some(c)}

\* ApiContext::create_login_attempt of a new attempt (its id a new Uuid).
CreateLoginAttempt ==
    /\ Len(login_attempt) < Cardinality(AttemptIds)
    /\ login_attempt' = LoginAttemptStore_upsert(NewAttempt(Len(login_attempt) + 1))
    /\ last' = [op |-> "create_login_attempt", result |-> NewAttempt(Len(login_attempt) + 1)]
    /\ UNCHANGED <<api_user, api_key, api_user_access_token, api_user_provider, signed,
                   rfd, now, pc, local, held>>

\* ApiContext::get_login_attempt: a request reads an attempt and holds it.
GetLoginAttempt(p) ==
    /\ \E id \in DOMAIN login_attempt :
        /\ held' = [held EXCEPT ![p] = LoginAttemptStore_get(id)]
        /\ last' = [op |-> "get_login_attempt", proc |-> p,
                    result |-> LoginAttemptStore_get(id)]
    /\ UNCHANGED <<stores, signed, now, pc, local>>

\* ApiContext::set_login_provider_authz_code on the attempt the request holds.
SetLoginProviderAuthzCode(p) ==
    /\ held[p] # None
    /\ \E code \in ProviderCodes, random \in NewRandomCodes :
        /\ login_attempt' =
                LoginAttemptStore_upsert(RemoteAuthenticatedAttempt(held[p][1], code, random))
        /\ last' = [op |-> "set_login_provider_authz_code", proc |-> p,
                    attempt |-> held[p][1], code |-> code,
                    result |-> login_attempt'[held[p][1].id]]
    /\ held' = [held EXCEPT ![p] = None]
    /\ UNCHANGED <<api_user, api_key, api_user_access_token, api_user_provider, signed,
                   rfd, now, pc, local>>

\* ApiContext::fail_login_attempt on the attempt the request holds.
FailLoginAttempt(p) ==
    /\ held[p] # None
    /\ login_attempt' = LoginAttemptStore_upsert(FailedAttempt(held[p][1]))
    /\ last' = [op |-> "fail_login_attempt", proc |-> p, attempt |-> held[p][1],
                result |-> login_attempt'[held[p][1].id]]
    /\ held' = [held EXCEPT ![p] = None]
    /\ UNCHANGED <<api_user, api_key, api_user_access_token, api_user_provider, signed,
                   rfd, now, pc, local>>

\* ApiContext::get_login_attempt_for_code: the request holds what it finds.
GetLoginAttemptForCode(p) ==
    /\ \E code \in PresentedCodes :
        /\ held' = [held EXCEPT ![p] =
                        IF LoginAttemptForCode(code) = <<>> THEN None
                        ELSE Some(LoginAttemptForCode(code)[1])]
        /\ last' = [op |-> "get_login_attempt_for_code", proc |-> p, code |-> code,
                    result |-> IF LoginAttemptForCode(code) = <<>> THEN None
                               ELSE Some(LoginAttemptForCode(code)[1])]
    /\ UNCHANGED <<stores, signed, now, pc, local>>

NextLogin ==
    \/ CreateLoginAttempt
    \/ \E p \in Procs : GetLoginAttempt(p)
    \/ \E p \in Procs : SetLoginProviderAuthzCode(p)
    \/ \E p \in Procs : FailLoginAttempt(p)
    \/ \E p \in Procs : GetLoginAttemptForCode(p)

\* Login attempts under concurrent requests, each reading an attempt and then
\* applying a transition to what it read.
SpecLogin == Init /\ [][NextLogin]_vars

\* ApiContext::create_login_attempt with any NewLoginAttempt a caller can
\* build: the id of a stored attempt or the next new one, either set of
\* binding fields, either expiry; state Created and no codes.
UpsertLoginAttempt ==
    /\ \E id \in AttemptIds, other \in BOOLEAN, expires_at \in {MaxTime + 1, MaxTime + 2} :
        LET attempt ==
                IF other
                THEN [NewAttempt(id) EXCEPT
                        !.client_id = "c2", !.redirect_uri = "https://y/cb",
                        !.state = "st2", !.pkce_challenge = "xyz",
                        !.pkce_challenge_method = "plain", !.provider = "google",
                        !.provider_state = "pst2", !.provider_pkce_verifier = "pv2",
                        !.expires_at = Some(expires_at)]
                ELSE [NewAttempt(id) EXCEPT !.expires_at = Some(expires_at)]
        IN  /\ id <= Len(login_attempt) + 1
            /\ login_attempt' = LoginAttemptStore_upsert(attempt)
            /\ last' = [op |-> "create_login_attempt", attempt |-> attempt,
                        prev |-> LoginAttemptStore_get(id),
                        result |-> login_attempt'[id]]
    /\ UNCHANGED <<api_user, api_key, api_user_access_token, api_user_provider, signed,
                   rfd, now, pc, local, held>>

NextAttemptRows ==
    \/ UpsertLoginAttempt
    \/ GetLoginAttempt(1)
    \/ SetLoginProviderAuthzCode(1)
    \/ FailLoginAttempt(1)

\* The rows of login attempts under upserts of any NewLoginAttempt and the
\* transitions of one request.
SpecAttemptRows == Init /\ [][NextAttemptRows]_vars

\* ------------------------------------------------------------------ RFDs

\* The numbers of the RFDs stored, and the visibilities of an RFD.
RfdNumbers == {123, 456, 789}
Visibilities == {"Public", "Private"}

\* The tables of RFDs: rows in order of creation, no two rows with a number,
\* each RFD with a revision.
RfdTables ==
    UNION {{[i \in 1..n |-> [rfd_number |-> numbers[i], visibility |-> visibilities[i],
                              deleted_at |-> NULL]] :
                numbers \in {f \in [1..n -> RfdNumbers] :
                                \A i, j \in 1..n : f[i] = f[j] => i = j},
                visibilities \in [1..n -> Visibilities]} :
            n \in 0..Cardinality(RfdNumbers)}

\* The caller of a request without credentials.
UnauthenticatedCaller == [id |-> 0, permissions |-> {}]

\* The callers of the RFD endpoints.
RfdCallers ==
    {UnauthenticatedCaller}
        \cup {[id |-> 1, permissions |-> prm] :
                prm \in SUBSET {GetRfdsAll, GetRfd(123), GetRfd(789)}}

\* The strings given as {number} in the path.
PresentedNumbers ==
    {<<"0", "1", "2", "3">>, <<"0", "4", "5", "6">>, <<"7", "8", "9">>, <<"1", "2">>,
     <<"-", "1">>, <<"x">>, <<>>}

DecimalDigits == <<"0", "1", "2", "3", "4", "5", "6", "7", "8", "9">>
IsDecimalDigit(c) == \E i \in DOMAIN DecimalDigits : DecimalDigits[i] = c
DecimalValue(c) == (CHOOSE i \in DOMAIN DecimalDigits : DecimalDigits[i] = c) - 1

RECURSIVE DecimalNumber(_)
DecimalNumber(text) ==
    IF text = <<>> THEN 0
    ELSE 10 * DecimalNumber(SubSeq(text, 1, Len(text) - 1)) + DecimalValue(text[Len(text)])

\* number.parse::<i32>(): an optional sign and one decimal digit or more.
\* The strings presented are too short to leave the range of i32.
ParseI32(text) ==
    LET signed_text == text # <<>> /\ text[1] \in {"+", "-"}
        digits == IF signed_text THEN Tail(text) ELSE text
    IN  IF digits = <<>> \/ \E i \in DOMAIN digits : ~IsDecimalDigit(digits[i])
        THEN Err("ParseIntError")
        ELSE IF signed_text /\ text[1] = "-" THEN Ok(0 - DecimalNumber(digits))
        ELSE Ok(DecimalNumber(digits))

\* Rows in the order they are stored in.
SortNone(rows) == rows

\* ORDER BY rfd_number DESC
RECURSIVE SortDesc(_)
SortDesc(rows) ==
    IF rows = <<>> THEN <<>>
    ELSE LET m == CHOOSE i \in DOMAIN rows :
                    \A j \in DOMAIN rows : rows[j].rfd_number <= rows[i].rfd_number
         IN  <<rows[m]>> \o SortDesc(SubSeq(rows, 1, m - 1) \o SubSeq(rows, m + 1, Len(rows)))

\* A list that leaves the rfd_number filter out of the query.
RfdStore_list_any_number(rfd_number, deleted, offset, limit) ==
    Paginate(SortDesc(SelectSeq(rfd, LAMBDA r : deleted \/ r.deleted_at = NULL)),
             offset, limit)

\* RfdStore::list with the rfd_number and deleted filters.
RfdStore_list(rfd_number, deleted, offset, limit) ==
    LET Match(r) ==
            /\ (rfd_number = None \/ r.rfd_number \in rfd_number[1])
            /\ (deleted \/ r.deleted_at = NULL)
    IN  Paginate(SortDesc(SelectSeq(rfd, Match)), offset, limit)

\* What list_rfds retains of the RFDs stored.
RfdVisible(caller, r) ==
    \/ Can(caller.permissions, GetRfdsAll)
    \/ r.visibility = "Public"
    \/ Can(caller.permissions, GetRfd(r.rfd_number))

\* ApiContext::list_rfds(caller, filter): the RFDs of the filter the caller
\* may read, by rfd_number descending.
ListRfds(caller, rfd_number) ==
    SortDesc(SelectSeq(RfdStore_list(rfd_number, FALSE, 0, Len(rfd)),
                       LAMBDA r : RfdVisible(caller, r)))

\* ApiContext::get_rfd(caller, rfd_number, None): the RFD of that number if
\* the caller may read it.
GetRfd_of(caller, rfd_number) ==
    IF ListRfds(caller, Some({rfd_number})) = <<>> THEN None
    ELSE Some(ListRfds(caller, Some({rfd_number}))[1])

\* A get_rfd_op that answers None with an internal error.
GetRfdResponseInternalError(result) ==
    IF result = None THEN Err("INTERNAL_SERVER_ERROR") ELSE Ok(result[1])

\* get_rfd_op: the response to an Ok(result) of get_rfd.
GetRfdResponse(result) ==
    IF result = None THEN Err("NOT_FOUND") ELSE Ok(result[1])

\* get_rfds_op
GetRfdsOp ==
    /\ \E caller \in RfdCallers :
        last' = [op |-> "get_rfds_op", caller |-> caller,
                 result |-> Ok(ListRfds(caller, None))]
    /\ UNCHANGED <<stores, signed, now, pc, local, held>>

\* get_rfd_op
GetRfdOp ==
    /\ \E caller \in RfdCallers, number \in PresentedNumbers :
        last' = [op |-> "get_rfd_op", caller |-> caller, number |-> number,
                 result |-> IF ParseI32(number)[1] = "Ok"
                            THEN GetRfdResponse(GetRfd_of(caller, ParseI32(number)[2]))
                            ELSE Err("BAD_REQUEST")]
    /\ UNCHANGED <<stores, signed, now, pc, local, held>>

InitRfd ==
    /\ api_user = <<>>
    /\ api_key = <<>>
    /\ api_user_access_token = <<>>
    /\ api_user_provider = <<>>
    /\ login_attempt = <<>>
    /\ rfd \in RfdTables
    /\ signed = {}
    /\ now = 0
    /\ pc = [p \in Procs |-> "idle"]
    /\ local = [p \in Procs |-> NoLocal]
    /\ held = [p \in Procs |-> None]
    /\ last = [op |-> "init"]

NextRfd ==
    \/ GetRfdsOp
    \/ GetRfdOp

\* The RFD endpoints over every table of RFDs.
SpecRfd == InitRfd /\ [][NextRfd]_vars

\* ============================================================ properties

\* The identity row with this id, tombstoned or not.
Stored(id) == id \in DOMAIN api_user
Live(id) == Stored(id) /\ api_user[id].deleted_at = NULL

\* C1: get_caller never yields a Caller for an identity that is soft-deleted
\* or has no row.  When the credential verified and the identity it names is
\* not live, the call ends in FailedToAuthenticate, or in the storage error of
\* a fetch that itself failed; a Caller always names the live identity the
\* credential names.  (The step that ends get_caller writes no store, so the
\* tables are those the fetch read.)
C1_NoCallerForDeletedIdentity ==
    last.op = "get_caller" =>
        /\ (last.verified /\ ~Live(last.api_user_id)) =>
                last.result \in {FailedToAuthenticate, StorageError}
        /\ last.result.kind = "Caller" =>
                /\ last.verified
                /\ last.result.id = last.api_user_id
                /\ Live(last.result.id)

\* A key that verified, of a tombstoned identity: FailedToAuthenticate.
C1_Witness ==
    /\ last.op = "get_caller"
    /\ last.auth.kind = "ApiKey"
    /\ last.verified
    /\ Stored(last.api_user_id)
    /\ api_user[last.api_user_id].deleted_at # NULL
    /\ last.result = FailedToAuthenticate

\* C2: soft-deletion is permanent.  No step removes a tombstoned identity row
\* or clears its deleted_at: not an upsert, not register_api_user with its
\* ensure_api_user, not the issuance of a key or a token.  And no get_caller
\* that names an identity whose row is tombstoned ends in a Caller: it fails
\* with FailedToAuthenticate unless its fetch failed.
C2_TombstoneStays ==
    \A id \in UserIds :
        (Stored(id) /\ api_user[id].deleted_at # NULL) =>
            (id \in DOMAIN api_user' /\ api_user'[id].deleted_at # NULL)

C2_NoCallerOnceDeleted ==
    (last.op = "get_caller" /\ last.verified /\ Stored(last.api_user_id)
        /\ api_user[last.api_user_id].deleted_at # NULL) =>
            last.result \in {FailedToAuthenticate, StorageError}

C2_SoftDeletePermanent == [][C2_TombstoneStays]_vars /\ []C2_NoCallerOnceDeleted

\* register_api_user has ensured an identity that was tombstoned before: the
\* upsert went through and the row it returns is still tombstoned.
C2_Witness ==
    /\ last.op = "register_api_user"
    /\ last.result = "Ok"
    /\ last.user.deleted_at # NULL
    /\ Stored(last.user.id)
    /\ api_user[last.user.id].deleted_at # NULL

\* A stored key that makes the presented signature valid now, owned by id.
ValidKeyNow(encrypted, id) ==
    \E i \in DOMAIN api_key :
        /\ api_key[i].key = encrypted
        /\ api_key[i].expires_at > now
        /\ api_key[i].deleted_at = NULL
        /\ api_key[i].api_user_id = id

\* C3: an API-key get_caller returns a Caller only if, at the time of its key
\* lookup, a stored key had the presented signature, expires_at later than
\* now and no deleted_at; the Caller's id is that key's api_user_id.  The
\* lookup goes on to the identity fetch only with such a key, keeping its
\* owner; the fetch answers for that owner; and no other step produces an
\* API-key Caller.
C3_Step ==
    \A p \in Procs :
        /\ (pc[p] = "idle" /\ pc'[p] = "user") =>
                ValidKeyNow(local'[p].auth.encrypted, local'[p].api_user_id)
        /\ (pc[p] = "user" /\ pc'[p] = "idle") =>
                /\ last'.op = "get_caller" /\ last'.proc = p
                /\ last'.auth = local[p].auth
                /\ last'.result.kind = "Caller" => last'.result.id = local[p].api_user_id
        /\ (last'.op = "get_caller" /\ last'.proc = p /\ last'.auth.kind = "ApiKey"
                /\ last'.result.kind = "Caller") => pc[p] = "user"

C3_CallerOnlyForValidKey == [][C3_Step]_vars

\* A Caller returned for a key that was valid at the lookup and deleted before
\* the identity fetch.
C3_Witness ==
    /\ last.op = "get_caller"
    /\ last.auth.kind = "ApiKey"
    /\ last.result.kind = "Caller"
    /\ ~ValidKeyNow(last.auth.encrypted, last.result.id)

\* C4: get_caller ends in exactly one of a fully formed Caller (the id of a
\* live identity the credential names, with the effective permissions), the
\* FailedToAuthenticate error, or a propagated storage error.  A key lookup
\* that matches no record and an identity fetch that matches no record both
\* end in FailedToAuthenticate (or in the storage error of the failed call);
\* there is no anonymous or partly filled Caller.
C4_CallerOrFailure ==
    last.op = "get_caller" =>
        /\ last.result.kind \in {"Caller", "FailedToAuthenticate", "Storage"}
        /\ last.result.kind = "Caller" =>
                /\ last.verified
                /\ Live(last.api_user_id)
                /\ last.result = Caller(last.api_user_id,
                                        Expand(Intersect(api_user[last.api_user_id].permissions,
                                                         last.permissions),
                                               api_user[last.api_user_id]))
        /\ last.result.kind # "Caller" => last.result \in {FailedToAuthenticate, StorageError}
        /\ (last.auth.kind = "ApiKey"
                /\ \A i \in DOMAIN api_key : api_key[i].key # last.auth.encrypted) =>
                last.result \in {FailedToAuthenticate, StorageError}
        /\ ~last.verified => last.result \in {FailedToAuthenticate, StorageError}
        /\ (last.verified /\ ~Live(last.api_user_id)) =>
                last.result \in {FailedToAuthenticate, StorageError}

\* A presented key that no record matches: FailedToAuthenticate.
C4_Witness ==
    /\ last.op = "get_caller"
    /\ last.auth.kind = "ApiKey"
    /\ \A i \in DOMAIN api_key : api_key[i].key # last.auth.encrypted
    /\ api_key # <<>>
    /\ last.result = FailedToAuthenticate

\* The same error for verified claims whose identity has no row.
C4_WitnessNoIdentity ==
    /\ last.op = "get_caller"
    /\ last.auth.kind = "Jwt"
    /\ ~Stored(last.api_user_id)
    /\ last.result = FailedToAuthenticate

\* C5: the permissions of a returned Caller are the credential's permissions
\* (the stored key's, or the token's prm claim) intersected with the
\* identity's stored permissions, then expanded against the identity; the
\* same for both kinds of credential.
C5_EffectivePermissions ==
    (last.op = "get_caller" /\ last.result.kind = "Caller") =>
        /\ Stored(last.result.id)
        /\ last.result.permissions =
                Expand(Intersect(last.permissions, api_user[last.result.id].permissions),
                       api_user[last.result.id])
        /\ last.auth.kind = "Jwt" =>
                last.permissions = last.auth.claims.prm /\ last.result.id = last.auth.claims.aud
        /\ last.auth.kind = "ApiKey" =>
                \E i \in DOMAIN api_key :
                    /\ api_key[i].key = last.auth.encrypted
                    /\ api_key[i].permissions = last.permissions
                    /\ api_key[i].api_user_id = last.result.id

\* A key's Caller whose permissions the identity's narrowed and the expansion
\* made concrete.
C5_Witness ==
    /\ last.op = "get_caller"
    /\ last.auth.kind = "ApiKey"
    /\ last.result.kind = "Caller"
    /\ last.result.permissions # Expand(last.permissions, api_user[last.result.id])

\* The expansion at work, for a token's claims.
C5_WitnessExpanded ==
    /\ last.op = "get_caller"
    /\ last.auth.kind = "Jwt"
    /\ last.result.kind = "Caller"
    /\ GetApiUser(last.result.id) \in last.result.permissions
    /\ GetApiUserSelf \in last.permissions

\* What a get_caller that runs with no step of any other request between its
\* reads returns for a credential in the current state, its store calls
\* answering.
CallerAlone(auth) ==
    IF CallerCredential(auth) = None THEN FailedToAuthenticate
    ELSE CallerResult(CallerCredential(auth)[1][1], CallerCredential(auth)[1][2])

\* C6: get_caller is a pure read.  No step of it changes an identity, API
\* key, issued-token, provider-link or login-attempt record, and under any
\* interleaving of concurrent get_caller calls each call ends as it would
\* have ended alone: with the result of an uninterrupted call on the same
\* credential, or with the storage error of a store call that failed.
C6_Frame ==
    (last'.op \in {"get_caller", "get_caller_key"} \/ pc' # pc \/ local' # local) =>
        UNCHANGED <<api_user, api_key, api_user_access_token, api_user_provider,
                    login_attempt>>

C6_AsAlone ==
    last.op = "get_caller" => last.result \in {CallerAlone(last.auth), StorageError}

C6_PureRead == [][C6_Frame]_vars /\ []C6_AsAlone

\* One request got its Caller while another, presenting the same key, is
\* between its two reads.
C6_Witness ==
    /\ last.op = "get_caller"
    /\ last.auth.kind = "ApiKey"
    /\ last.result.kind = "Caller"
    /\ \E p \in Procs : p # last.proc /\ pc[p] = "user" /\ local[p].auth = last.auth

\* C7: the expiry bound of register_access_token is inclusive.  With now the
\* time of the check, a request for expires_at = now + max_expiration passes
\* the check (the call succeeds unless the store or the signer fails), and a
\* request for now + max_expiration + 1 second fails with
\* ExcessTokenExpiration; in general the call is refused exactly when
\* expires_at is later than now + max_expiration.
C7_InclusiveExpiryBound ==
    (last.op = "register_access_token" /\ last.expires_at # None) =>
        /\ last.expires_at[1] = last.at + MaxExpiration =>
                last.result \in {"Ok", "Storage", "Signer"}
        /\ last.expires_at[1] = last.at + MaxExpiration + 1 =>
                last.result = "ExcessTokenExpiration"
        /\ last.result = "ExcessTokenExpiration" <=>
                last.expires_at[1] > last.at + MaxExpiration

\* A token issued with expires_at exactly now + max_expiration.
C7_Witness ==
    /\ last.op = "register_access_token"
    /\ last.expires_at = Some(last.at + MaxExpiration)
    /\ last.result = "Ok"
    /\ last.claims.exp = last.at + MaxExpiration

\* One second more: refused.
C7_WitnessRefused ==
    /\ last.op = "register_access_token"
    /\ last.expires_at = Some(last.at + MaxExpiration + 1)
    /\ last.result = "ExcessTokenExpiration"

\* The permissions of the model's vocabulary.
AllPermissions ==
    {GetRfdsAll, GetApiUserAll, GetApiUserSelf} \cup {GetRfd(n) : n \in {1, 2}}
        \cup {GetApiUser(id) : id \in UserIds}

\* C8: the permissions of an issued token are the requested permissions
\* intersected with the identity's permissions as register_access_token was
\* given them, and are never wider than that ceiling: whatever the token's
\* permissions cover, the identity's cover.
C8_TokenWithinCeiling ==
    (last.op = "register_access_token" /\ last.result = "Ok") =>
        /\ last.claims.prm = Intersect(last.requested_permissions, last.api_user.permissions)
        /\ \A p \in AllPermissions :
                Can(last.claims.prm, p) => Can(last.api_user.permissions, p)
        /\ last.claims \in signed

\* A token whose permissions came out narrower than the request.
C8_Witness ==
    /\ last.op = "register_access_token"
    /\ last.result = "Ok"
    /\ \E p \in AllPermissions :
            Can(last.requested_permissions, p) /\ ~Can(last.claims.prm, p)

\* C9: a successful register_access_token persists one issued-token record:
\* a new row whose id is the claims' jti, whose api_user_id is the claims'
\* aud and whose revoked_at is empty; no other row is added or changed.
C9_Step ==
    (last'.op = "register_access_token" /\ last'.result = "Ok") =>
        /\ last'.claims.jti \notin DOMAIN api_user_access_token
        /\ DOMAIN api_user_access_token' =
                DOMAIN api_user_access_token \cup {last'.claims.jti}
        /\ api_user_access_token'[last'.claims.jti] =
                [id |-> last'.claims.jti, api_user_id |-> last'.claims.aud,
                 revoked_at |-> NULL]
        /\ \A id \in DOMAIN api_user_access_token :
                api_user_access_token'[id] = api_user_access_token[id]
        /\ last'.access_token = api_user_access_token'[last'.claims.jti]

C9_OneTokenRecord == [][C9_Step]_vars

\* A second token was issued, after the first was revoked: its record is in
\* the store next to the first's.
C9_Witness ==
    /\ last.op = "register_access_token"
    /\ \E id \in DOMAIN api_user_access_token :
            id # last.claims.jti /\ api_user_access_token[id].revoked_at # NULL
    /\ last.result = "Ok"
    /\ last.claims.jti \in DOMAIN api_user_access_token
    /\ api_user_access_token[last.claims.jti].api_user_id = last.claims.aud
    /\ api_user_access_token[last.claims.jti].revoked_at = NULL

\* C10: the permissions stored with a new API key are exactly the requested
\* permissions that the owner's permissions cover; what the owner's ceiling
\* does not cover is dropped and the insert still succeeds.  So every
\* permission of a stored key was covered by its owner's permissions when the
\* key was issued.  (The owner is the identity ApiKeyStore::upsert is given.)
C10_Step ==
    (last'.op = "create_api_user_token" /\ last'.ok) =>
        /\ Len(api_key') = Len(api_key) + 1
        /\ SubSeq(api_key', 1, Len(api_key)) = api_key
        /\ LET row == api_key'[Len(api_key')]
                requested == last'.key.permissions
                owner == api_user[last'.key.api_user_id]
           IN  /\ row.id = last'.key.id
               /\ row.api_user_id = owner.id
               /\ owner = last'.api_user
               /\ row.permissions = {p \in requested : Can(owner.permissions, p)}
               /\ \A p \in row.permissions : Can(owner.permissions, p)

C10_KeyWithinCeiling == [][C10_Step]_vars

\* A request for "read all documents" and "read all users" by an owner whose
\* ceiling holds the first and not the second: the key is stored with the
\* first alone.
C10_Witness ==
    /\ last.op = "create_api_user_token"
    /\ last.ok
    /\ last.key.permissions = {GetRfdsAll, GetApiUserAll}
    /\ GetRfdsAll \in last.api_user.permissions
    /\ GetApiUserAll \notin last.api_user.permissions
    /\ api_key[Len(api_key)].id = last.key.id
    /\ api_key[Len(api_key)].permissions = {GetRfdsAll}

\* C11: a stored API key is changed by soft-delete alone.  Whatever the
\* operation (an upsert, with a new id or with one that is present, a get, a
\* list, a delete), every row of api_key keeps its id, signature, owner,
\* permissions and expiry, and a deleted_at that is set stays set.
C11_Step ==
    \A i \in DOMAIN api_key :
        /\ i \in DOMAIN api_key'
        /\ api_key'[i].id = api_key[i].id
        /\ api_key'[i].key = api_key[i].key
        /\ api_key'[i].api_user_id = api_key[i].api_user_id
        /\ api_key'[i].permissions = api_key[i].permissions
        /\ api_key'[i].expires_at = api_key[i].expires_at
        /\ api_key[i].deleted_at # NULL => api_key'[i].deleted_at # NULL

C11_KeyImmutable == [][C11_Step]_vars

\* An upsert with the id of a stored, soft-deleted key was refused and the
\* row is still soft-deleted.
C11_Witness ==
    /\ last.op = "create_api_user_token"
    /\ ~last.ok
    /\ \E i \in DOMAIN api_key : api_key[i].deleted_at # NULL

\* C12: parsing is the inverse of formatting.  The key string "{id}.{secret}"
\* that sign builds for a RawApiKey parses back to a RawApiKey with the same
\* id and the same secret, whether the key was generated (a hex secret) or
\* itself parsed (any secret, with further '.' or empty).
C12_ParseInvertsFormat ==
    (last.op = "sign" /\ last.result[1] = "Ok") =>
        RawApiKey_try_from(last.result[2].key) = Ok(last.raw)

\* A generated key, signed: its key string parses back to it.
C12_Witness ==
    /\ last.op = "sign"
    /\ last.generated # None
    /\ last.result[1] = "Ok"
    /\ Len(last.raw.clear) >= 1
    /\ RawApiKey_try_from(last.result[2].key)[1] = "Ok"
    /\ RawApiKey_try_from(last.result[2].key)[2].id = last.raw.id
    /\ RawApiKey_try_from(last.result[2].key)[2].clear = last.raw.clear

\* The text before the first '.' of a string that has one.
Prefix(value) == SubSeq(value, 1, Min({i \in DOMAIN value : value[i] = "."}) - 1)
HasDot(value) == \E i \in DOMAIN value : value[i] = "."
ValidUuidText(text) ==
    Len(text) = 2 * UuidBytes /\ \A i \in DOMAIN text : IsHexDigit(text[i])

\* C13: parsing a presented string that holds no '.', or whose text before
\* the first '.' is not a valid Uuid, fails with FailedToParse and yields no
\* RawApiKey.
C13_ParseRejects ==
    (last.op = "parse" /\ (~HasDot(last.value) \/ ~ValidUuidText(Prefix(last.value)))) =>
        last.result = Err("FailedToParse")

\* A string with a '.' whose prefix is no Uuid: FailedToParse.
C13_Witness ==
    /\ last.op = "parse"
    /\ HasDot(last.value)
    /\ Len(Prefix(last.value)) = 2 * UuidBytes
    /\ ~ValidUuidText(Prefix(last.value))
    /\ last.result = Err("FailedToParse")

\* A string of hex digits without a '.': FailedToParse.
C13_WitnessNoDot ==
    /\ last.op = "parse"
    /\ ~HasDot(last.value)
    /\ ValidUuidText(last.value)
    /\ last.result = Err("FailedToParse")

\* C14: parsing splits at the first '.' only.  A string with a '.' whose
\* prefix is a Uuid parses, the id is the prefix's Uuid and the secret is all
\* the text after that '.', verbatim: with its further '.' characters, and
\* empty when nothing follows.
C14_SplitAtFirstDot ==
    (last.op = "parse" /\ HasDot(last.value) /\ ValidUuidText(Prefix(last.value))) =>
        /\ last.result[1] = "Ok"
        /\ last.result[2].id = HexNumber(Prefix(last.value))
        /\ last.result[2].clear =
                SubSeq(last.value, Len(Prefix(last.value)) + 2, Len(last.value))

\* A parsed secret that holds a '.'.
C14_Witness ==
    /\ last.op = "parse"
    /\ last.result[1] = "Ok"
    /\ HasDot(last.result[2].clear)

\* A parsed secret that is empty.
C14_WitnessEmpty ==
    /\ last.op = "parse"
    /\ last.result[1] = "Ok"
    /\ last.result[2].clear = <<>>

C16_DistinctSecretsDistinctSignatures ==
    (last.op = "sign" /\ last.prev # None
        /\ last.prev[1].raw.id = last.raw.id
        /\ last.prev[1].raw.clear # last.raw.clear
        /\ last.prev[1].signer = last.signer
        /\ last.result[1] = "Ok") =>
            /\ last.prev[1].result[1] = "Ok"
            /\ last.prev[1].result[2].signature # last.result[2].signature

\* Two keys generated for one identity, their secrets different, both signed.
C16_Witness ==
    /\ last.op = "sign"
    /\ last.generated # None
    /\ last.prev # None
    /\ last.prev[1].raw.id = last.raw.id
    /\ last.prev[1].raw.clear # last.raw.clear
    /\ last.prev[1].signer = last.signer
    /\ last.result[1] = "Ok"
    /\ last.prev[1].result[2].signature # last.result[2].signature

\* C17: RawApiKey::sign returns a SignedApiKey whose key is "{id}.{secret}",
\* the secret of a generated key being the hex digits of its random bytes,
\* and whose signature is the hex encoding of the Signer's signature over
\* exactly that key string; when the Signer fails it returns the signing
\* error and no SignedApiKey.
C17_SignedKey ==
    last.op = "sign" =>
        LET key == FormatUuid(last.raw.id) \o <<".">> \o last.raw.clear
        IN  /\ last.generated # None => last.raw.clear = HexEncode(last.generated[1])
            /\ IF SignerSign(last.signer, key)[1] = "Ok"
               THEN /\ last.result[1] = "Ok"
                    /\ last.result[2].key = key
                    /\ last.result[2].signature = HexEncode(SignerSign(last.signer, key)[2])
               ELSE last.result = Err("Signing")

\* A generated key, signed.
C17_Witness ==
    /\ last.op = "sign"
    /\ last.generated # None
    /\ last.result[1] = "Ok"
    /\ Len(last.result[2].signature) = 2 * Len(SignerSign(last.signer, last.result[2].key)[2])

\* The Signer failed.
C17_WitnessSigningError ==
    /\ last.op = "sign"
    /\ last.result = Err("Signing")


\* The fields of an attempt a client supplies.
ClientSupplied(attempt) ==
    {attempt.client_id, attempt.redirect_uri, attempt.state, attempt.pkce_challenge,
     attempt.pkce_challenge_method}

\* C18: set_login_provider_authz_code on a Created attempt stores the
\* provider's code verbatim in provider_authz_code, sets the state to
\* RemoteAuthenticated and sets authz_code to a new random value, which is
\* neither the provider's code nor a field the client supplied nor a code of
\* another attempt.
C18_RemoteAuthenticated ==
    (last.op = "set_login_provider_authz_code" /\ last.attempt.attempt_state = "Created")
        => LET row == login_attempt[last.attempt.id]
           IN  /\ row = last.result
               /\ row.provider_authz_code = Some(last.code)
               /\ row.attempt_state = "RemoteAuthenticated"
               /\ row.authz_code # None
               /\ row.authz_code[1] \in LocalCodes
               /\ row.authz_code[1] # last.code
               /\ row.authz_code[1] \notin ClientSupplied(row)
               /\ row.authz_code # last.attempt.authz_code
               /\ \A id \in DOMAIN login_attempt :
                      id # row.id => login_attempt[id].authz_code # row.authz_code

C18_Witness ==
    /\ last.op = "set_login_provider_authz_code"
    /\ last.attempt.attempt_state = "Created"
    /\ last.code = "prov-987"
    /\ login_attempt[last.attempt.id].provider_authz_code = Some("prov-987")
    /\ login_attempt[last.attempt.id].attempt_state = "RemoteAuthenticated"

\* C19: get_login_attempt_for_code(code) returns an attempt only if the stored
\* attempt is RemoteAuthenticated and its stored authz_code is the code; an
\* attempt that is Created or Failed is never returned, also when its
\* authz_code is the code.
C19_OnlyRemoteAuthenticated ==
    last.op = "get_login_attempt_for_code"
        => /\ last.result # None
                => /\ last.result[1].id \in DOMAIN login_attempt
                   /\ login_attempt[last.result[1].id] = last.result[1]
                   /\ last.result[1].attempt_state = "RemoteAuthenticated"
                   /\ last.result[1].authz_code = Some(last.code)
           /\ (\A id \in DOMAIN login_attempt :
                    login_attempt[id].authz_code = Some(last.code)
                        => login_attempt[id].attempt_state \in {"Created", "Failed"})
                => last.result = None

\* A lookup that finds the attempt.
C19_Witness ==
    /\ last.op = "get_login_attempt_for_code"
    /\ last.result # None
    /\ last.result[1].authz_code = Some(last.code)

\* A lookup with the code of a Failed attempt, which finds nothing.
C19_WitnessFailed ==
    /\ last.op = "get_login_attempt_for_code"
    /\ last.result = None
    /\ \E id \in DOMAIN login_attempt :
        /\ login_attempt[id].attempt_state = "Failed"
        /\ login_attempt[id].authz_code = Some(last.code)

\* C20: Failed is terminal: no operation changes the state of a Failed
\* attempt, and no code looks a Failed attempt up afterwards.
C20_FailedIsTerminal ==
    [][\A id \in DOMAIN login_attempt :
        login_attempt[id].attempt_state = "Failed"
            => /\ login_attempt'[id].attempt_state = "Failed"
               /\ \A code \in PresentedCodes :
                    \A i \in DOMAIN LoginAttemptForCode(code)' :
                        LoginAttemptForCode(code)'[i].id # id]_vars

\* A Failed attempt that set_login_provider_authz_code was applied to.
C20_FailedLeft ==
    /\ last.op = "set_login_provider_authz_code"
    /\ last.attempt.attempt_state = "Failed"
    /\ login_attempt[last.attempt.id].attempt_state = "RemoteAuthenticated"

\* The columns of an attempt a transition writes.
Transitioned(attempt) ==
    <<attempt.attempt_state, attempt.authz_code, attempt.provider_authz_code>>

\* C21: an attempt that is RemoteAuthenticated keeps its authz_code for as
\* long as it stays RemoteAuthenticated, also when
\* set_login_provider_authz_code is applied to it again.
C21_CodeNotRegenerated ==
    [][\A id \in DOMAIN login_attempt :
        (login_attempt[id].attempt_state = "RemoteAuthenticated"
            /\ login_attempt'[id].attempt_state = "RemoteAuthenticated")
            => login_attempt'[id].authz_code = login_attempt[id].authz_code]_vars

\* set_login_provider_authz_code applied to an attempt read as
\* RemoteAuthenticated, whose stored code is no longer the one read.
C21_Regenerated ==
    /\ last.op = "set_login_provider_authz_code"
    /\ last.attempt.attempt_state = "RemoteAuthenticated"
    /\ last.result.attempt_state = "RemoteAuthenticated"
    /\ last.result.authz_code # last.attempt.authz_code

\* C22: a transition applied again with the same target (the same provider
\* code on an attempt that is RemoteAuthenticated, fail_login_attempt on an
\* attempt that is Failed) leaves attempt_state, authz_code and
\* provider_authz_code as the first application left them.
C22_IdempotentRetry ==
    [][/\ (/\ last'.op = "set_login_provider_authz_code"
           /\ last'.attempt = login_attempt[last'.attempt.id]
           /\ last'.attempt.attempt_state = "RemoteAuthenticated"
           /\ last'.attempt.provider_authz_code = Some(last'.code))
            => Transitioned(login_attempt'[last'.attempt.id])
                    = Transitioned(login_attempt[last'.attempt.id])
       /\ (/\ last'.op = "fail_login_attempt"
           /\ last'.attempt = login_attempt[last'.attempt.id]
           /\ last'.attempt.attempt_state = "Failed")
            => Transitioned(login_attempt'[last'.attempt.id])
                    = Transitioned(login_attempt[last'.attempt.id])]_vars

\* The same provider code set again on the attempt as stored, with another
\* stored authz_code as the outcome.
C22_RetryChanged ==
    /\ last.op = "set_login_provider_authz_code"
    /\ last.attempt.attempt_state = "RemoteAuthenticated"
    /\ last.attempt.provider_authz_code = Some(last.code)
    /\ last.result.provider_authz_code = last.attempt.provider_authz_code
    /\ last.result.authz_code # last.attempt.authz_code

\* C23: a transition computed from a stale snapshot (the stored attempt was
\* written by another transition after the request read it) does not
\* overwrite the attempt_state, authz_code or provider_authz_code stored.
C23_StaleSnapshotLoses ==
    [][(/\ last'.op \in {"set_login_provider_authz_code", "fail_login_attempt"}
        /\ Transitioned(last'.attempt) # Transitioned(login_attempt[last'.attempt.id]))
            => Transitioned(login_attempt'[last'.attempt.id])
                    = Transitioned(login_attempt[last'.attempt.id])]_vars

\* fail_login_attempt from a snapshot read as Created, applied after another
\* request made the attempt RemoteAuthenticated: the stored state is Failed.
C23_StaleOverwrote ==
    /\ last.op = "fail_login_attempt"
    /\ last.attempt.attempt_state = "Created"
    /\ last.result.attempt_state = "Failed"
    /\ last.result.authz_code = None
    /\ \E p \in Procs :
        /\ held[p] # None
        /\ held[p][1].id = last.attempt.id
        /\ held[p][1].attempt_state = "RemoteAuthenticated"

\* C24: after create_login_attempt of A and set_login_provider_authz_code(A, P)
\* the local code L stored differs from P, and get_login_attempt_for_code(L)
\* returns A, with the id, client id, redirect URI and PKCE challenge it was
\* created with and with provider_authz_code = P.
C24_EndToEnd ==
    (last.op = "set_login_provider_authz_code" /\ last.attempt.attempt_state = "Created")
        => LET L == last.result.authz_code
               found == LoginAttemptForCode(L[1])
           IN  /\ L # None
               /\ L[1] # last.code
               /\ Len(found) = 1
               /\ found[1].id = last.attempt.id
               /\ found[1].client_id = NewAttempt(last.attempt.id).client_id
               /\ found[1].redirect_uri = NewAttempt(last.attempt.id).redirect_uri
               /\ found[1].pkce_challenge = NewAttempt(last.attempt.id).pkce_challenge
               /\ found[1].provider_authz_code = Some(last.code)

\* The older of two RemoteAuthenticated attempts is the one that has just
\* been given its code "prov-987".
C24_Witness ==
    /\ last.op = "set_login_provider_authz_code"
    /\ last.attempt.attempt_state = "Created"
    /\ last.code = "prov-987"
    /\ last.attempt.id = 1
    /\ Len(login_attempt) = 2
    /\ login_attempt[2].attempt_state = "RemoteAuthenticated"
    /\ LoginAttemptForCode(last.result.authz_code[1])[1].id = 1

\* C25: every stored login attempt in state Created has neither an
\* authz_code nor a provider_authz_code.
C25_CreatedHasNoCodes ==
    \A id \in DOMAIN login_attempt :
        login_attempt[id].attempt_state = "Created"
            => /\ login_attempt[id].authz_code = None
               /\ login_attempt[id].provider_authz_code = None

\* An attempt is Created while another has been given its codes.
C25_Witness ==
    \E id, other \in DOMAIN login_attempt :
        /\ login_attempt[id].attempt_state = "Created"
        /\ login_attempt[other].attempt_state = "RemoteAuthenticated"
        /\ login_attempt[other].authz_code # None
        /\ last.op = "set_login_provider_authz_code"

\* The live provider links of an external id.
MatchingLinks(external_id) ==
    SelectSeq(api_user_provider,
              LAMBDA l : /\ l.provider = external_id[1]
                         /\ l.provider_id = external_id[2]
                         /\ l.deleted_at = NULL)

Readable(caller) ==
    {i \in DOMAIN rfd :
        \/ rfd[i].visibility = "Public"
        \/ GetRfdsAll \in caller.permissions
        \/ GetRfd(rfd[i].rfd_number) \in caller.permissions}

C27_WitnessGet ==
    /\ last.op = "get_rfd_op"
    /\ last.number = <<"0", "1", "2", "3">>
    /\ last.caller.permissions = {GetRfd(123)}
    /\ last.result[1] = "Ok"
    /\ last.result[2].visibility = "Private"
    /\ \E i \in DOMAIN rfd : rfd[i].rfd_number = 789

C28_WitnessAbsent ==
    /\ last.op = "get_rfd_op"
    /\ last.number = <<"1", "2">>
    /\ GetRfdsAll \in last.caller.permissions
    /\ Len(rfd) = 3
    /\ last.result = Err("NOT_FOUND")

C30_RefusalWritesNothing ==
    [][(last'.op = "register_access_token" /\ last'.result = "ExcessTokenExpiration")
        => /\ api_user_access_token' = api_user_access_token
           /\ signed' = signed
           /\ stores' = stores
           /\ last'.claims = NoClaims
           /\ last'.access_token = NoToken]_vars

\* A refusal while no token has been issued yet: none is stored after it.
C30_Witness ==
    /\ last.op = "register_access_token"
    /\ last.result = "ExcessTokenExpiration"
    /\ last.expires_at # None
    /\ api_user_access_token = <<>>
    /\ signed = {}

\* C31: every signed token of register_access_token has an issued-token
\* record with its id, persisted before the claims were signed: no signed
\* token is without its record, whether the store or the signer fails or not.
C31_SignedTokenHasRecord ==
    /\ \A claims \in signed :
        /\ claims.jti \in DOMAIN api_user_access_token
        /\ api_user_access_token[claims.jti].api_user_id = claims.aud
    /\ (last.op = "register_access_token" /\ last.result \in {"Storage", "ExcessTokenExpiration"})
        => last.claims \notin signed
    /\ (last.op = "register_access_token" /\ last.result = "Ok")
        => /\ last.claims \in signed
           /\ last.access_token.id = last.claims.jti
           /\ api_user_access_token[last.claims.jti] = last.access_token

\* A token issued and signed, with its record.
C31_Witness ==
    /\ last.op = "register_access_token"
    /\ last.result = "Ok"
    /\ last.claims \in signed
    /\ last.claims.jti \in DOMAIN api_user_access_token

\* The signer failed: the record is stored and no token is signed.
C31_WitnessSignerFailed ==
    /\ last.op = "register_access_token"
    /\ last.result = "Signer"
    /\ api_user_access_token # <<>>
    /\ signed = {}

C33_RevokedTokenRefused ==
    (/\ last.op = "get_caller"
     /\ last.auth.kind = "Jwt"
     /\ last.auth.claims.jti \in DOMAIN api_user_access_token
     /\ api_user_access_token[last.auth.claims.jti].revoked_at # NULL)
        => last.result.kind # "Caller"

\* A Caller returned for the claims of a revoked token.
C33_RevokedTokenAccepted ==
    /\ last.op = "get_caller"
    /\ last.auth.kind = "Jwt"
    /\ last.auth.claims \in signed
    /\ last.auth.claims.jti \in DOMAIN api_user_access_token
    /\ api_user_access_token[last.auth.claims.jti].revoked_at # NULL
    /\ last.result.kind = "Caller"
    /\ last.result.id = last.auth.claims.aud

\* C34: under any interleaving of register_api_user requests that present one
\* external identity, at most one provider link and at most one identity
\* exist for it, and no register_api_user fails with InvariantFailed.
C34_OneLinkPerExternalIdentity ==
    /\ \A external_id \in ExternalIds :
        /\ Len(MatchingLinks(external_id)) <= 1
        /\ Cardinality({MatchingLinks(external_id)[i].api_user_id :
                            i \in DOMAIN MatchingLinks(external_id)}) <= 1
    /\ last.op = "register_api_user" => last.result # "InvariantFailed"

\* Two requests have each registered the external identity: two links, to
\* two identities.
C34_TwoLinks ==
    /\ last.op = "register_api_user"
    /\ last.result = "Ok"
    /\ Len(MatchingLinks(last.external_id)) = 2
    /\ MatchingLinks(last.external_id)[1].api_user_id
            # MatchingLinks(last.external_id)[2].api_user_id

\* C35: register_api_user for an external identity with exactly one provider
\* link returns the identity the link points to and leaves the stored
\* permissions of that identity and every provider link unchanged; only a
\* register_api_user that finds no link creates an identity, with the default
\* permissions, and one link to it.
C35_ExistingLinkChangesNothing ==
    [][last'.op = "register_api_user"
        => LET links == MatchingLinks(last'.external_id)
           IN  /\ Len(links) = 1
                    => /\ last'.result = "Ok"
                       /\ last'.user.id = links[1].api_user_id
                       /\ api_user'[links[1].api_user_id].permissions
                            = api_user[links[1].api_user_id].permissions
                       /\ DOMAIN api_user' = DOMAIN api_user
                       /\ api_user_provider' = api_user_provider
               /\ DOMAIN api_user' # DOMAIN api_user
                    => /\ Len(links) = 0
                       /\ \A id \in DOMAIN api_user' \ DOMAIN api_user :
                            api_user'[id].permissions = DefaultPermissions
               /\ (Len(links) = 0 /\ last'.result = "Ok")
                    => /\ Len(api_user_provider') = Len(api_user_provider) + 1
                       /\ api_user'[last'.user.id].permissions = DefaultPermissions
                       /\ last'.user.id \notin DOMAIN api_user
                       /\ api_user_provider'[Len(api_user_provider')].api_user_id
                            = last'.user.id]_vars

\* register_api_user has found one link, to an identity that is soft-deleted
\* and whose permissions were not the defaults: they are the defaults now.
C35_DeletedIdentityReset ==
    /\ last.op = "register_api_user"
    /\ last.result = "Ok"
    /\ last.user.deleted_at # NULL
    /\ last.user.permissions = DefaultPermissions
    /\ Len(MatchingLinks(last.external_id)) = 1

\* The binding fields of a login attempt.
BindingFields(attempt) ==
    <<attempt.client_id, attempt.redirect_uri, attempt.state, attempt.pkce_challenge,
      attempt.pkce_challenge_method, attempt.provider, attempt.provider_state,
      attempt.provider_pkce_verifier>>

\* C36: no upsert, transition or failure changes the binding fields of a
\* stored login attempt (client_id, redirect_uri, state, pkce_challenge and
\* its method, provider, provider_state, provider_pkce_verifier): every step
\* leaves them as they were stored, and they are those the attempt was
\* created with.
C36_BindingFieldsFixed ==
    [][/\ \A id \in DOMAIN login_attempt :
            /\ id \in DOMAIN login_attempt'
            /\ BindingFields(login_attempt'[id]) = BindingFields(login_attempt[id])
       /\ \A id \in DOMAIN login_attempt' \ DOMAIN login_attempt :
            /\ last'.op = "create_login_attempt"
            /\ BindingFields(login_attempt'[id]) = BindingFields(last'.attempt)]_vars

\* An upsert on the id of a stored attempt that went through a transition,
\* with other binding fields and another expiry: the row keeps its binding
\* fields and takes the state, the codes and the expiry of the upsert.
C36_Witness ==
    /\ last.op = "create_login_attempt"
    /\ last.prev # None
    /\ last.prev[1].attempt_state = "RemoteAuthenticated"
    /\ BindingFields(last.attempt) # BindingFields(last.prev[1])
    /\ BindingFields(last.result) = BindingFields(last.prev[1])
    /\ last.result.attempt_state = "Created"
    /\ last.result.authz_code = None
    /\ last.result.provider_authz_code = None
    /\ last.result.expires_at # last.prev[1].expires_at

\* C37: every stored login attempt in state RemoteAuthenticated has a local
\* authz_code and a provider_authz_code, under any interleaving of
\* set_login_provider_authz_code and fail_login_attempt.
C37_RemoteAuthenticatedHasCodes ==
    \A id \in DOMAIN login_attempt :
        login_attempt[id].attempt_state = "RemoteAuthenticated"
            => /\ login_attempt[id].authz_code # None
               /\ login_attempt[id].provider_authz_code # None

\* set_login_provider_authz_code applied to a snapshot of a failed attempt
\* that had no codes: the row is RemoteAuthenticated with both codes.
C37_Witness ==
    /\ last.op = "set_login_provider_authz_code"
    /\ last.attempt.attempt_state = "Failed"
    /\ last.attempt.authz_code = None
    /\ last.attempt.provider_authz_code = None
    /\ login_attempt[last.attempt.id].attempt_state = "RemoteAuthenticated"
    /\ login_attempt[last.attempt.id].authz_code # None
    /\ login_attempt[last.attempt.id].provider_authz_code = Some(last.code)

\* C38: with revoked = false, AccessTokenStore::list returns the token of an
\* id exactly when AccessTokenStore::get(id, false) returns it, which is
\* exactly when the token is stored with an empty revoked_at.
C38_ListAgreesWithGet ==
    (last.op = "list_access_token" /\ ~last.revoked)
        => /\ (last.listed # <<>>) <=> (last.got # None)
           /\ (last.listed # <<>>)
                <=> /\ last.id \in DOMAIN api_user_access_token
                    /\ api_user_access_token[last.id].revoked_at = NULL
           /\ last.listed # <<>> => last.listed[1] = last.got[1]

\* A token that was never revoked: get(id, false) returns it and the list
\* with revoked = false is empty.
C38_UnrevokedNotListed ==
    /\ last.op = "list_access_token"
    /\ ~last.revoked
    /\ last.id \in DOMAIN api_user_access_token
    /\ api_user_access_token[last.id].revoked_at = NULL
    /\ last.got = Some(api_user_access_token[last.id])
    /\ last.listed = <<>>

\* C39: after ApiUserProviderStore::delete(id) the link of that id is
\* soft-deleted, so that get(id, false) does not return it, and every
\* identity is as it was before the call.
C39_DeleteTombstonesLink ==
    last.op = "delete_api_user_provider"
        => /\ ApiUserProviderStore_get(last.id, FALSE) = None
           /\ api_user = last.api_user

\* delete(id) of a live link has returned the link, which get(id, false)
\* still returns.
C39_LinkStillLive ==
    /\ last.op = "delete_api_user_provider"
    /\ last.result # None
    /\ last.result[1].deleted_at = NULL
    /\ ApiUserProviderStore_get(last.id, FALSE) = last.result
    /\ api_user = last.api_user

====
